---- MODULE Spec2Model ----
(***************************************************************************)
(* A model of the s2n handshake I/O driver (tls/s2n_handshake_io.c): the   *)
(* message catalog, the handshake-variant table, the progression engine,   *)
(* the write path, the read path and s2n_negotiate.                        *)
(*                                                                         *)
(* A connection is a record; every function of the driver is an operator   *)
(* from a connection to the connection it leaves behind, with the return   *)
(* value in the field ret and s2n_errno in the field err.                  *)
(***************************************************************************)
EXTENDS Integers, Sequences, FiniteSets, TLC

VARIABLES conn, wire, fed, handshake_type_str, thread

vars == <<conn, wire, fed, handshake_type_str, thread>>

(***************************************************************************)
(* Bounds of the model.                                                    *)
(***************************************************************************)
\* longest message body a write handler produces
MaxBody == 1
\* largest record payload s2n_record_max_write_payload_size reports
MaxPayload == 5
\* most bytes of one inbound record in the read-path specification
MaxChunk == 4

(***************************************************************************)
(* RFC 5246 handshake message types.                                       *)
(***************************************************************************)
TLS_HELLO_REQUEST == 0
TLS_CLIENT_HELLO == 1
TLS_SERVER_HELLO == 2
TLS_SERVER_NEW_SESSION_TICKET == 4
TLS_SERVER_CERT == 11
TLS_SERVER_KEY == 12
TLS_SERVER_CERT_REQ == 13
TLS_CLIENT_CERT_REQ == 13
TLS_SERVER_HELLO_DONE == 14
TLS_CLIENT_CERT == 11
TLS_CLIENT_CERT_VERIFY == 15
TLS_CLIENT_KEY == 16
TLS_CLIENT_FINISHED == 20
TLS_SERVER_FINISHED == 20
TLS_SERVER_CERT_STATUS == 22

(***************************************************************************)
(* Record content types, the handshake header length and the largest       *)
(* handshake body (tls/s2n_tls_parameters.h).                              *)
(***************************************************************************)
TLS_CHANGE_CIPHER_SPEC == 20
TLS_ALERT == 21
TLS_HANDSHAKE == 22
TLS_APPLICATION_DATA == 23
TLS_HANDSHAKE_HEADER_LENGTH == 4
S2N_MAXIMUM_HANDSHAKE_MESSAGE_LENGTH == 65536

(***************************************************************************)
(* The flags of the handshake-type bitset: bit i is the flag named by      *)
(* handshake_type_names[i].                                                *)
(***************************************************************************)
INITIAL == 0
NEGOTIATED == 1
FULL_HANDSHAKE == 2
PERFECT_FORWARD_SECRECY == 4
OCSP_STATUS == 8
CLIENT_AUTH == 16
WITH_SESSION_TICKET == 32
NO_CLIENT_CERT == 64

HasFlag(t, f) == (t \div f) % 2 = 1
\* t |= f
SetFlag(t, f) == IF HasFlag(t, f) THEN t ELSE t + f
\* t &= ~f
ClearFlag(t, f) == IF HasFlag(t, f) THEN t - f ELSE t

Min(a, b) == IF a < b THEN a ELSE b

(***************************************************************************)
(* message_type_t, in the order of the enumeration: CLIENT_HELLO is 0, the *)
(* value of every slot of the table that no initializer fills.             *)
(***************************************************************************)
MessageKinds ==
    << "CLIENT_HELLO", "SERVER_HELLO", "SERVER_NEW_SESSION_TICKET", "SERVER_CERT",
       "SERVER_CERT_STATUS", "SERVER_KEY", "SERVER_CERT_REQ", "SERVER_HELLO_DONE",
       "CLIENT_CERT", "CLIENT_KEY", "CLIENT_CERT_VERIFY", "CLIENT_CHANGE_CIPHER_SPEC",
       "CLIENT_FINISHED", "SERVER_CHANGE_CIPHER_SPEC", "SERVER_FINISHED",
       "APPLICATION_DATA" >>

Ord(kind) == CHOOSE i \in 1..Len(MessageKinds) : MessageKinds[i] = kind

(***************************************************************************)
(* state_machine[]: record type, message type and writer of every message  *)
(* kind; handler is FALSE for the NULL pair of APPLICATION_DATA.           *)
(***************************************************************************)
Action(rt, mt, w, h) == [record_type |-> rt, message_type |-> mt, writer |-> w, handler |-> h]

\* mutant: SERVER_HELLO_DONE is written by neither endpoint alone
state_machine_NoWriter(kind) ==
    CASE kind = "CLIENT_HELLO" -> Action(TLS_HANDSHAKE, TLS_CLIENT_HELLO, "C", TRUE)
      [] kind = "SERVER_HELLO" -> Action(TLS_HANDSHAKE, TLS_SERVER_HELLO, "S", TRUE)
      [] kind = "SERVER_NEW_SESSION_TICKET" -> Action(TLS_HANDSHAKE, TLS_SERVER_NEW_SESSION_TICKET, "S", TRUE)
      [] kind = "SERVER_CERT" -> Action(TLS_HANDSHAKE, TLS_SERVER_CERT, "S", TRUE)
      [] kind = "SERVER_CERT_STATUS" -> Action(TLS_HANDSHAKE, TLS_SERVER_CERT_STATUS, "S", TRUE)
      [] kind = "SERVER_KEY" -> Action(TLS_HANDSHAKE, TLS_SERVER_KEY, "S", TRUE)
      [] kind = "SERVER_CERT_REQ" -> Action(TLS_HANDSHAKE, TLS_CLIENT_CERT_REQ, "S", TRUE)
      [] kind = "SERVER_HELLO_DONE" -> Action(TLS_HANDSHAKE, TLS_SERVER_HELLO_DONE, "B", TRUE)
      [] kind = "CLIENT_CERT" -> Action(TLS_HANDSHAKE, TLS_CLIENT_CERT, "C", TRUE)
      [] kind = "CLIENT_KEY" -> Action(TLS_HANDSHAKE, TLS_CLIENT_KEY, "C", TRUE)
      [] kind = "CLIENT_CERT_VERIFY" -> Action(TLS_HANDSHAKE, TLS_CLIENT_CERT_VERIFY, "C", TRUE)
      [] kind = "CLIENT_CHANGE_CIPHER_SPEC" -> Action(TLS_CHANGE_CIPHER_SPEC, 0, "C", TRUE)
      [] kind = "CLIENT_FINISHED" -> Action(TLS_HANDSHAKE, TLS_CLIENT_FINISHED, "C", TRUE)
      [] kind = "SERVER_CHANGE_CIPHER_SPEC" -> Action(TLS_CHANGE_CIPHER_SPEC, 0, "S", TRUE)
      [] kind = "SERVER_FINISHED" -> Action(TLS_HANDSHAKE, TLS_SERVER_FINISHED, "S", TRUE)
      [] kind = "APPLICATION_DATA" -> Action(TLS_APPLICATION_DATA, 0, "B", FALSE)

state_machine(kind) ==
    CASE kind = "CLIENT_HELLO" -> Action(TLS_HANDSHAKE, TLS_CLIENT_HELLO, "C", TRUE)
      [] kind = "SERVER_HELLO" -> Action(TLS_HANDSHAKE, TLS_SERVER_HELLO, "S", TRUE)
      [] kind = "SERVER_NEW_SESSION_TICKET" -> Action(TLS_HANDSHAKE, TLS_SERVER_NEW_SESSION_TICKET, "S", TRUE)
      [] kind = "SERVER_CERT" -> Action(TLS_HANDSHAKE, TLS_SERVER_CERT, "S", TRUE)
      [] kind = "SERVER_CERT_STATUS" -> Action(TLS_HANDSHAKE, TLS_SERVER_CERT_STATUS, "S", TRUE)
      [] kind = "SERVER_KEY" -> Action(TLS_HANDSHAKE, TLS_SERVER_KEY, "S", TRUE)
      [] kind = "SERVER_CERT_REQ" -> Action(TLS_HANDSHAKE, TLS_CLIENT_CERT_REQ, "S", TRUE)
      [] kind = "SERVER_HELLO_DONE" -> Action(TLS_HANDSHAKE, TLS_SERVER_HELLO_DONE, "S", TRUE)
      [] kind = "CLIENT_CERT" -> Action(TLS_HANDSHAKE, TLS_CLIENT_CERT, "C", TRUE)
      [] kind = "CLIENT_KEY" -> Action(TLS_HANDSHAKE, TLS_CLIENT_KEY, "C", TRUE)
      [] kind = "CLIENT_CERT_VERIFY" -> Action(TLS_HANDSHAKE, TLS_CLIENT_CERT_VERIFY, "C", TRUE)
      [] kind = "CLIENT_CHANGE_CIPHER_SPEC" -> Action(TLS_CHANGE_CIPHER_SPEC, 0, "C", TRUE)
      [] kind = "CLIENT_FINISHED" -> Action(TLS_HANDSHAKE, TLS_CLIENT_FINISHED, "C", TRUE)
      [] kind = "SERVER_CHANGE_CIPHER_SPEC" -> Action(TLS_CHANGE_CIPHER_SPEC, 0, "S", TRUE)
      [] kind = "SERVER_FINISHED" -> Action(TLS_HANDSHAKE, TLS_SERVER_FINISHED, "S", TRUE)
      [] kind = "APPLICATION_DATA" -> Action(TLS_APPLICATION_DATA, 0, "B", FALSE)

(***************************************************************************)
(* handshakes[128][16]: the initializers of the table, as written.         *)
(***************************************************************************)
handshakes(t) ==
    CASE t = INITIAL ->
        << "CLIENT_HELLO", "SERVER_HELLO" >>
      [] t = NEGOTIATED ->
        << "CLIENT_HELLO", "SERVER_HELLO", "SERVER_CHANGE_CIPHER_SPEC", "SERVER_FINISHED",
           "CLIENT_CHANGE_CIPHER_SPEC", "CLIENT_FINISHED", "APPLICATION_DATA" >>
      [] t = NEGOTIATED + WITH_SESSION_TICKET ->
        << "CLIENT_HELLO", "SERVER_HELLO", "SERVER_NEW_SESSION_TICKET",
           "SERVER_CHANGE_CIPHER_SPEC", "SERVER_FINISHED", "CLIENT_CHANGE_CIPHER_SPEC",
           "CLIENT_FINISHED", "APPLICATION_DATA" >>
      [] t = NEGOTIATED + FULL_HANDSHAKE ->
        << "CLIENT_HELLO", "SERVER_HELLO", "SERVER_CERT", "SERVER_HELLO_DONE", "CLIENT_KEY",
           "CLIENT_CHANGE_CIPHER_SPEC", "CLIENT_FINISHED", "SERVER_CHANGE_CIPHER_SPEC",
           "SERVER_FINISHED", "APPLICATION_DATA" >>
      [] t = NEGOTIATED + FULL_HANDSHAKE + WITH_SESSION_TICKET ->
        << "CLIENT_HELLO", "SERVER_HELLO", "SERVER_CERT", "SERVER_HELLO_DONE", "CLIENT_KEY",
           "CLIENT_CHANGE_CIPHER_SPEC", "CLIENT_FINISHED", "SERVER_NEW_SESSION_TICKET",
           "SERVER_CHANGE_CIPHER_SPEC", "SERVER_FINISHED", "APPLICATION_DATA" >>
      [] t = NEGOTIATED + FULL_HANDSHAKE + PERFECT_FORWARD_SECRECY ->
        << "CLIENT_HELLO", "SERVER_HELLO", "SERVER_CERT", "SERVER_KEY", "SERVER_HELLO_DONE",
           "CLIENT_KEY", "CLIENT_CHANGE_CIPHER_SPEC", "CLIENT_FINISHED",
           "SERVER_CHANGE_CIPHER_SPEC", "SERVER_FINISHED", "APPLICATION_DATA" >>
      [] t = NEGOTIATED + FULL_HANDSHAKE + PERFECT_FORWARD_SECRECY + WITH_SESSION_TICKET ->
        << "CLIENT_HELLO", "SERVER_HELLO", "SERVER_CERT", "SERVER_KEY", "SERVER_HELLO_DONE",
           "CLIENT_KEY", "CLIENT_CHANGE_CIPHER_SPEC", "CLIENT_FINISHED",
           "SERVER_NEW_SESSION_TICKET", "SERVER_CHANGE_CIPHER_SPEC", "SERVER_FINISHED",
           "APPLICATION_DATA" >>
      [] t = NEGOTIATED + FULL_HANDSHAKE + OCSP_STATUS ->
        << "CLIENT_HELLO", "SERVER_HELLO", "SERVER_CERT", "SERVER_CERT_STATUS",
           "SERVER_HELLO_DONE", "CLIENT_KEY", "CLIENT_CHANGE_CIPHER_SPEC", "CLIENT_FINISHED",
           "SERVER_CHANGE_CIPHER_SPEC", "SERVER_FINISHED", "APPLICATION_DATA" >>
      [] t = NEGOTIATED + FULL_HANDSHAKE + OCSP_STATUS + WITH_SESSION_TICKET ->
        << "CLIENT_HELLO", "SERVER_HELLO", "SERVER_CERT", "SERVER_CERT_STATUS",
           "SERVER_HELLO_DONE", "CLIENT_KEY", "CLIENT_CHANGE_CIPHER_SPEC", "CLIENT_FINISHED",
           "SERVER_NEW_SESSION_TICKET", "SERVER_CHANGE_CIPHER_SPEC", "SERVER_FINISHED",
           "APPLICATION_DATA" >>
      [] t = NEGOTIATED + FULL_HANDSHAKE + PERFECT_FORWARD_SECRECY + OCSP_STATUS ->
        << "CLIENT_HELLO", "SERVER_HELLO", "SERVER_CERT", "SERVER_CERT_STATUS", "SERVER_KEY",
           "SERVER_HELLO_DONE", "CLIENT_KEY", "CLIENT_CHANGE_CIPHER_SPEC", "CLIENT_FINISHED",
           "SERVER_CHANGE_CIPHER_SPEC", "SERVER_FINISHED", "APPLICATION_DATA" >>
      [] t = NEGOTIATED + FULL_HANDSHAKE + PERFECT_FORWARD_SECRECY + OCSP_STATUS + WITH_SESSION_TICKET ->
        << "CLIENT_HELLO", "SERVER_HELLO", "SERVER_CERT", "SERVER_CERT_STATUS", "SERVER_KEY",
           "SERVER_HELLO_DONE", "CLIENT_KEY", "CLIENT_CHANGE_CIPHER_SPEC", "CLIENT_FINISHED",
           "SERVER_NEW_SESSION_TICKET", "SERVER_CHANGE_CIPHER_SPEC", "SERVER_FINISHED",
           "APPLICATION_DATA" >>
      [] t = NEGOTIATED + FULL_HANDSHAKE + CLIENT_AUTH ->
        << "CLIENT_HELLO", "SERVER_HELLO", "SERVER_CERT", "SERVER_CERT_REQ", "SERVER_HELLO_DONE",
           "CLIENT_CERT", "CLIENT_KEY", "CLIENT_CERT_VERIFY", "CLIENT_CHANGE_CIPHER_SPEC",
           "CLIENT_FINISHED", "SERVER_CHANGE_CIPHER_SPEC", "SERVER_FINISHED", "APPLICATION_DATA" >>
      [] t = NEGOTIATED + FULL_HANDSHAKE + CLIENT_AUTH + NO_CLIENT_CERT ->
        << "CLIENT_HELLO", "SERVER_HELLO", "SERVER_CERT", "SERVER_CERT_REQ", "SERVER_HELLO_DONE",
           "CLIENT_CERT", "CLIENT_KEY", "CLIENT_CHANGE_CIPHER_SPEC", "CLIENT_FINISHED",
           "SERVER_CHANGE_CIPHER_SPEC", "SERVER_FINISHED", "APPLICATION_DATA" >>
      [] t = NEGOTIATED + FULL_HANDSHAKE + CLIENT_AUTH + WITH_SESSION_TICKET ->
        << "CLIENT_HELLO", "SERVER_HELLO", "SERVER_CERT", "SERVER_CERT_REQ", "SERVER_HELLO_DONE",
           "CLIENT_CERT", "CLIENT_KEY", "CLIENT_CERT_VERIFY", "CLIENT_CHANGE_CIPHER_SPEC",
           "CLIENT_FINISHED", "SERVER_NEW_SESSION_TICKET", "SERVER_CHANGE_CIPHER_SPEC",
           "SERVER_FINISHED", "APPLICATION_DATA" >>
      [] t = NEGOTIATED + FULL_HANDSHAKE + CLIENT_AUTH + NO_CLIENT_CERT + WITH_SESSION_TICKET ->
        << "CLIENT_HELLO", "SERVER_HELLO", "SERVER_CERT", "SERVER_CERT_REQ", "SERVER_HELLO_DONE",
           "CLIENT_CERT", "CLIENT_KEY", "CLIENT_CHANGE_CIPHER_SPEC", "CLIENT_FINISHED",
           "SERVER_NEW_SESSION_TICKET", "SERVER_CHANGE_CIPHER_SPEC", "SERVER_FINISHED",
           "APPLICATION_DATA" >>
      [] t = NEGOTIATED + FULL_HANDSHAKE + PERFECT_FORWARD_SECRECY + CLIENT_AUTH ->
        << "CLIENT_HELLO", "SERVER_HELLO", "SERVER_CERT", "SERVER_KEY", "SERVER_CERT_REQ",
           "SERVER_HELLO_DONE", "CLIENT_CERT", "CLIENT_KEY", "CLIENT_CERT_VERIFY",
           "CLIENT_CHANGE_CIPHER_SPEC", "CLIENT_FINISHED", "SERVER_CHANGE_CIPHER_SPEC",
           "SERVER_FINISHED", "APPLICATION_DATA" >>
      [] t = NEGOTIATED + FULL_HANDSHAKE + PERFECT_FORWARD_SECRECY + CLIENT_AUTH + NO_CLIENT_CERT ->
        << "CLIENT_HELLO", "SERVER_HELLO", "SERVER_CERT", "SERVER_KEY", "SERVER_CERT_REQ",
           "SERVER_HELLO_DONE", "CLIENT_CERT", "CLIENT_KEY", "CLIENT_CHANGE_CIPHER_SPEC",
           "CLIENT_FINISHED", "SERVER_CHANGE_CIPHER_SPEC", "SERVER_FINISHED", "APPLICATION_DATA" >>
      [] t = NEGOTIATED + FULL_HANDSHAKE + PERFECT_FORWARD_SECRECY + CLIENT_AUTH + WITH_SESSION_TICKET ->
        << "CLIENT_HELLO", "SERVER_HELLO", "SERVER_CERT", "SERVER_KEY", "SERVER_CERT_REQ",
           "SERVER_HELLO_DONE", "CLIENT_CERT", "CLIENT_KEY", "CLIENT_CERT_VERIFY",
           "CLIENT_CHANGE_CIPHER_SPEC", "CLIENT_FINISHED", "SERVER_NEW_SESSION_TICKET",
           "SERVER_CHANGE_CIPHER_SPEC", "SERVER_FINISHED", "APPLICATION_DATA" >>
      [] t = NEGOTIATED + FULL_HANDSHAKE + PERFECT_FORWARD_SECRECY + CLIENT_AUTH + NO_CLIENT_CERT + WITH_SESSION_TICKET ->
        << "CLIENT_HELLO", "SERVER_HELLO", "SERVER_CERT", "SERVER_KEY", "SERVER_CERT_REQ",
           "SERVER_HELLO_DONE", "CLIENT_CERT", "CLIENT_KEY", "CLIENT_CHANGE_CIPHER_SPEC",
           "CLIENT_FINISHED", "SERVER_NEW_SESSION_TICKET", "SERVER_CHANGE_CIPHER_SPEC",
           "SERVER_FINISHED", "APPLICATION_DATA" >>
      [] t = NEGOTIATED + FULL_HANDSHAKE + OCSP_STATUS + CLIENT_AUTH ->
        << "CLIENT_HELLO", "SERVER_HELLO", "SERVER_CERT", "SERVER_CERT_STATUS", "SERVER_CERT_REQ",
           "SERVER_HELLO_DONE", "CLIENT_CERT", "CLIENT_KEY", "CLIENT_CERT_VERIFY",
           "CLIENT_CHANGE_CIPHER_SPEC", "CLIENT_FINISHED", "SERVER_CHANGE_CIPHER_SPEC",
           "SERVER_FINISHED", "APPLICATION_DATA" >>
      [] t = NEGOTIATED + FULL_HANDSHAKE + OCSP_STATUS + CLIENT_AUTH + NO_CLIENT_CERT ->
        << "CLIENT_HELLO", "SERVER_HELLO", "SERVER_CERT", "SERVER_CERT_STATUS", "SERVER_CERT_REQ",
           "SERVER_HELLO_DONE", "CLIENT_CERT", "CLIENT_KEY", "CLIENT_CHANGE_CIPHER_SPEC",
           "CLIENT_FINISHED", "SERVER_CHANGE_CIPHER_SPEC", "SERVER_FINISHED", "APPLICATION_DATA" >>
      [] t = NEGOTIATED + FULL_HANDSHAKE + OCSP_STATUS + CLIENT_AUTH + WITH_SESSION_TICKET ->
        << "CLIENT_HELLO", "SERVER_HELLO", "SERVER_CERT", "SERVER_CERT_STATUS", "SERVER_CERT_REQ",
           "SERVER_HELLO_DONE", "CLIENT_CERT", "CLIENT_KEY", "CLIENT_CERT_VERIFY",
           "CLIENT_CHANGE_CIPHER_SPEC", "CLIENT_FINISHED", "SERVER_NEW_SESSION_TICKET",
           "SERVER_CHANGE_CIPHER_SPEC", "SERVER_FINISHED", "APPLICATION_DATA" >>
      [] t = NEGOTIATED + FULL_HANDSHAKE + OCSP_STATUS + CLIENT_AUTH + NO_CLIENT_CERT + WITH_SESSION_TICKET ->
        << "CLIENT_HELLO", "SERVER_HELLO", "SERVER_CERT", "SERVER_CERT_STATUS", "SERVER_CERT_REQ",
           "SERVER_HELLO_DONE", "CLIENT_CERT", "CLIENT_KEY", "CLIENT_CHANGE_CIPHER_SPEC",
           "CLIENT_FINISHED", "SERVER_NEW_SESSION_TICKET", "SERVER_CHANGE_CIPHER_SPEC",
           "SERVER_FINISHED", "APPLICATION_DATA" >>
      [] t = NEGOTIATED + FULL_HANDSHAKE + PERFECT_FORWARD_SECRECY + OCSP_STATUS + CLIENT_AUTH ->
        << "CLIENT_HELLO", "SERVER_HELLO", "SERVER_CERT", "SERVER_CERT_STATUS", "SERVER_KEY",
           "SERVER_CERT_REQ", "SERVER_HELLO_DONE", "CLIENT_CERT", "CLIENT_KEY",
           "CLIENT_CERT_VERIFY", "CLIENT_CHANGE_CIPHER_SPEC", "CLIENT_FINISHED",
           "SERVER_CHANGE_CIPHER_SPEC", "SERVER_FINISHED", "APPLICATION_DATA" >>
      [] t = NEGOTIATED + FULL_HANDSHAKE + PERFECT_FORWARD_SECRECY + OCSP_STATUS + CLIENT_AUTH + NO_CLIENT_CERT ->
        << "CLIENT_HELLO", "SERVER_HELLO", "SERVER_CERT", "SERVER_CERT_STATUS", "SERVER_KEY",
           "SERVER_CERT_REQ", "SERVER_HELLO_DONE", "CLIENT_CERT", "CLIENT_KEY",
           "CLIENT_CHANGE_CIPHER_SPEC", "CLIENT_FINISHED", "SERVER_CHANGE_CIPHER_SPEC",
           "SERVER_FINISHED", "APPLICATION_DATA" >>
      [] t = NEGOTIATED + FULL_HANDSHAKE + PERFECT_FORWARD_SECRECY + OCSP_STATUS + CLIENT_AUTH + WITH_SESSION_TICKET ->
        << "CLIENT_HELLO", "SERVER_HELLO", "SERVER_CERT", "SERVER_CERT_STATUS", "SERVER_KEY",
           "SERVER_CERT_REQ", "SERVER_HELLO_DONE", "CLIENT_CERT", "CLIENT_KEY",
           "CLIENT_CERT_VERIFY", "CLIENT_CHANGE_CIPHER_SPEC", "CLIENT_FINISHED",
           "SERVER_NEW_SESSION_TICKET", "SERVER_CHANGE_CIPHER_SPEC", "SERVER_FINISHED",
           "APPLICATION_DATA" >>
      [] t = NEGOTIATED + FULL_HANDSHAKE + PERFECT_FORWARD_SECRECY + OCSP_STATUS + CLIENT_AUTH + NO_CLIENT_CERT + WITH_SESSION_TICKET ->
        << "CLIENT_HELLO", "SERVER_HELLO", "SERVER_CERT", "SERVER_CERT_STATUS", "SERVER_KEY",
           "SERVER_CERT_REQ", "SERVER_HELLO_DONE", "CLIENT_CERT", "CLIENT_KEY",
           "CLIENT_CHANGE_CIPHER_SPEC", "CLIENT_FINISHED", "SERVER_NEW_SESSION_TICKET",
           "SERVER_CHANGE_CIPHER_SPEC", "SERVER_FINISHED", "APPLICATION_DATA" >>
      [] OTHER -> << >>


\* mutant: the initializer written for NEGOTIATED | FULL_HANDSHAKE | CLIENT_AUTH |
\* NO_CLIENT_CERT is indexed without CLIENT_AUTH
Row_Misindexed(t) ==
    LET u == IF t = NEGOTIATED + FULL_HANDSHAKE + NO_CLIENT_CERT
             THEN NEGOTIATED + FULL_HANDSHAKE + CLIENT_AUTH + NO_CLIENT_CERT
             ELSE IF t = NEGOTIATED + FULL_HANDSHAKE + CLIENT_AUTH + NO_CLIENT_CERT THEN 128
             ELSE t
    IN [i \in 1..16 |-> IF i <= Len(handshakes(u)) THEN handshakes(u)[i] ELSE MessageKinds[1]]

\* mutant: CLIENT_FINISHED is put before CLIENT_CHANGE_CIPHER_SPEC
Row_FinishedFirst(t) ==
    [i \in 1..16 |->
        IF i > Len(handshakes(t)) THEN MessageKinds[1]
        ELSE IF handshakes(t)[i] = "CLIENT_FINISHED" THEN "CLIENT_CHANGE_CIPHER_SPEC"
        ELSE IF handshakes(t)[i] = "CLIENT_CHANGE_CIPHER_SPEC" THEN "CLIENT_FINISHED"
        ELSE handshakes(t)[i]]

\* one row of the table: sixteen slots, the unfilled ones zero (CLIENT_HELLO)
Row(t) == [i \in 1..16 |-> IF i <= Len(handshakes(t)) THEN handshakes(t)[i] ELSE MessageKinds[1]]

\* handshakes[t][n] as C lays the table out: an index past a row reads the next row
Slot(t, n) == Row((t * 16 + n) \div 16)[((t * 16 + n) % 16) + 1]

ACTIVE_MESSAGE(c) == Slot(c.handshake_type, c.message_number)
PREVIOUS_MESSAGE(c) == Slot(c.handshake_type, c.message_number - 1)
ACTIVE_STATE(c) == state_machine(ACTIVE_MESSAGE(c))
PREVIOUS_STATE(c) == state_machine(PREVIOUS_MESSAGE(c))
EXPECTED_MESSAGE_TYPE(c) == ACTIVE_STATE(c).message_type

s2n_conn_get_current_message_type(c) == ACTIVE_MESSAGE(c)

(***************************************************************************)
(* Errors.  A failing call leaves ret = -1, s2n_errno in err, the site     *)
(* that raised it in debug_str and, for transport errors, errno in         *)
(* sys_errno.                                                              *)
(***************************************************************************)
Fail(c, e, where) == [c EXCEPT !.ret = -1, !.err = e, !.debug_str = where]
FailIO(c, e, where, eno) == [c EXCEPT !.ret = -1, !.err = e, !.debug_str = where, !.sys_errno = eno]

(***************************************************************************)
(* The stuffer: data written so far, the read cursor and the wiped flag.   *)
(***************************************************************************)
s2n_stuffer_wipe == [data |-> << >>, rd |-> 0, wiped |-> TRUE]
s2n_stuffer_write(s, bytes) == [s EXCEPT !.data = s.data \o bytes, !.wiped = FALSE]
s2n_stuffer_data_available(s) == Len(s.data) - s.rd
s2n_stuffer_reread(s) == [s EXCEPT !.rd = 0]
s2n_stuffer_skip_read(s, n) == [s EXCEPT !.rd = s.rd + n]
\* the n bytes at the read cursor
s2n_stuffer_peek(s, n) == SubSeq(s.data, s.rd + 1, s.rd + n)

\* conn->in: the bytes of the record not consumed yet
s2n_stuffer_copy_in(c, n) ==
    [c EXCEPT !.io = s2n_stuffer_write(c.io, SubSeq(c.inb, 1, n)),
              !.inb = SubSeq(c.inb, n + 1, Len(c.inb))]

\* the record is done: wipe header_in and in, in_status = ENCRYPTED
WipeRecord(c) == [c EXCEPT !.inb = << >>, !.hdr = << >>]

(***************************************************************************)
(* The 4-byte handshake header: type, 24-bit big-endian body length.       *)
(***************************************************************************)
EncodeLength(n) == << (n \div 65536) % 256, (n \div 256) % 256, n % 256 >>
DecodeLength(b) == b[1] * 65536 + b[2] * 256 + b[3]

s2n_handshake_write_header(c, message_type) ==
    [c EXCEPT !.io = s2n_stuffer_write(c.io, << message_type >> \o EncodeLength(0))]

s2n_handshake_finish_header(c) ==
    LET n == Len(c.io.data) - TLS_HANDSHAKE_HEADER_LENGTH
    IN [c EXCEPT !.io.data = SubSeq(c.io.data, 1, 1) \o EncodeLength(n)
                               \o SubSeq(c.io.data, 5, Len(c.io.data))]

\* the header at the read cursor of handshake.io, and the cursor past it
ParsedType(c) == s2n_stuffer_peek(c.io, 4)[1]
ParsedLength(c) == DecodeLength(SubSeq(s2n_stuffer_peek(c.io, 4), 2, 4))
s2n_handshake_parse_header(c) == [c EXCEPT !.io = s2n_stuffer_skip_read(c.io, TLS_HANDSHAKE_HEADER_LENGTH)]

(***************************************************************************)
(* Transcript: the bytes handed to s2n_conn_update_handshake_hashes, which *)
(* feeds them to every hash that is required.                              *)
(***************************************************************************)
s2n_conn_update_handshake_hashes(c, data) == [c EXCEPT !.transcript = c.transcript \o data]

(***************************************************************************)
(* The transport hints of s2n_advance_message.                             *)
(***************************************************************************)
s2n_socket_quickack(c) == [c EXCEPT !.quickacks = c.quickacks + 1]
s2n_socket_write_cork(c) == [c EXCEPT !.corked = TRUE, !.cork_ops = Append(c.cork_ops, "cork")]
s2n_socket_write_uncork(c) == [c EXCEPT !.corked = FALSE, !.cork_ops = Append(c.cork_ops, "uncork")]

\* the writer change that decides corking: new writer against previous writer
WriterChanged(c) == ACTIVE_STATE(c).writer # PREVIOUS_STATE(c).writer

\* mutant: the message number skips a slot
IncrementMessageNumber_Twice(c) == [c EXCEPT !.message_number = c.message_number + 2]

\* conn->handshake.message_number++
IncrementMessageNumber(c) == [c EXCEPT !.message_number = c.message_number + 1]

\* mutant: the transport is corked for the peer's flight and uncorked for one's own
s2n_advance_message_CorkForPeer(c0) ==
    LET this == c0.mode
        c == s2n_socket_quickack(IncrementMessageNumber(c0))
    IN IF ~c.cfg.corked_io \/ c.cfg.was_corked THEN c
       ELSE IF ~WriterChanged(c) THEN c
       ELSE IF ACTIVE_STATE(c).writer # this
            THEN (IF c.cfg.managed_corked THEN s2n_socket_write_cork(c) ELSE c)
            ELSE (IF c.cfg.managed_corked THEN s2n_socket_write_uncork(c) ELSE c)

s2n_advance_message(c0) ==
    LET this == c0.mode
        c == s2n_socket_quickack(IncrementMessageNumber(c0))
    IN IF ~c.cfg.corked_io \/ c.cfg.was_corked THEN c
       ELSE IF ~WriterChanged(c) THEN c
       ELSE IF ACTIVE_STATE(c).writer = this
            THEN (IF c.cfg.managed_corked THEN s2n_socket_write_cork(c) ELSE c)
            ELSE (IF c.cfg.managed_corked THEN s2n_socket_write_uncork(c) ELSE c)

(***************************************************************************)
(* s2n_conn_set_handshake_type and s2n_conn_set_handshake_no_client_cert.  *)
(***************************************************************************)
\* mutant: FULL_HANDSHAKE is not added
FullHandshakeFlags_NoFull(c) ==
    LET t1 == c.handshake_type
        t2 == IF c.mode = "C" /\ c.cfg.auth = "REQUIRED" THEN SetFlag(t1, CLIENT_AUTH)
              ELSE IF c.mode = "S" /\ c.cfg.auth # "NONE" THEN SetFlag(t1, CLIENT_AUTH)
              ELSE t1
        t3 == IF c.cfg.kex_ephemeral THEN SetFlag(t2, PERFECT_FORWARD_SECRECY) ELSE t2
        t4 == IF c.cfg.can_send_ocsp \/ c.cfg.sent_ocsp THEN SetFlag(t3, OCSP_STATUS) ELSE t3
    IN [c EXCEPT !.handshake_type = t4]

FullHandshakeFlags(c) ==
    LET t1 == SetFlag(c.handshake_type, FULL_HANDSHAKE)
        t2 == IF c.mode = "C" /\ c.cfg.auth = "REQUIRED" THEN SetFlag(t1, CLIENT_AUTH)
              ELSE IF c.mode = "S" /\ c.cfg.auth # "NONE" THEN SetFlag(t1, CLIENT_AUTH)
              ELSE t1
        t3 == IF c.cfg.kex_ephemeral THEN SetFlag(t2, PERFECT_FORWARD_SECRECY) ELSE t2
        t4 == IF c.cfg.can_send_ocsp \/ c.cfg.sent_ocsp THEN SetFlag(t3, OCSP_STATUS) ELSE t3
    IN [c EXCEPT !.handshake_type = t4]

\* from the label skip_cache_lookup on
SkipCacheLookup(c) ==
    IF c.mode = "C" /\ c.cfg.client_session_resumed THEN c ELSE FullHandshakeFlags(c)

\* the session cache is asked for the session of the ClientHello
s2n_resume_from_cache(c) == [c EXCEPT !.cache_lookups = c.cache_lookups + 1]

CacheLookup(c) ==
    IF c.cfg.allowed_to_cache
    THEN (IF c.cfg.cache_hit THEN s2n_resume_from_cache(c)
          ELSE SkipCacheLookup(s2n_resume_from_cache(c)))
    ELSE SkipCacheLookup(c)

\* mutant: the result of s2n_decrypt_session_ticket is read the other way round
s2n_conn_set_handshake_type_NegatedDecrypt(c0) ==
    LET c == [c0 EXCEPT !.handshake_type = NEGOTIATED]
    IN IF c.cfg.use_tickets
       THEN IF c.ticket_status = "S2N_DECRYPT_TICKET"
            THEN IF ~c.cfg.decrypt_ok THEN c
                 ELSE SkipCacheLookup(
                        IF c.cfg.key_available
                        THEN [c EXCEPT !.ticket_status = "S2N_NEW_TICKET",
                                       !.handshake_type = SetFlag(c.handshake_type, WITH_SESSION_TICKET)]
                        ELSE c)
            ELSE CacheLookup(
                   IF c.ticket_status = "S2N_NEW_TICKET"
                   THEN [c EXCEPT !.handshake_type = SetFlag(c.handshake_type, WITH_SESSION_TICKET)]
                   ELSE c)
       ELSE CacheLookup(c)

\* mutant: NEGOTIATED is added to the bitset that was there
s2n_conn_set_handshake_type_KeepPrevious(c0) ==
    LET c == [c0 EXCEPT !.handshake_type = SetFlag(c0.handshake_type, NEGOTIATED)]
    IN IF c.cfg.use_tickets
       THEN IF c.ticket_status = "S2N_DECRYPT_TICKET"
            THEN IF c.cfg.decrypt_ok THEN c
                 ELSE SkipCacheLookup(
                        IF c.cfg.key_available
                        THEN [c EXCEPT !.ticket_status = "S2N_NEW_TICKET",
                                       !.handshake_type = SetFlag(c.handshake_type, WITH_SESSION_TICKET)]
                        ELSE c)
            ELSE CacheLookup(
                   IF c.ticket_status = "S2N_NEW_TICKET"
                   THEN [c EXCEPT !.handshake_type = SetFlag(c.handshake_type, WITH_SESSION_TICKET)]
                   ELSE c)
       ELSE CacheLookup(c)

s2n_conn_set_handshake_type(c0) ==
    LET c == [c0 EXCEPT !.handshake_type = NEGOTIATED]
    IN IF c.cfg.use_tickets
       THEN IF c.ticket_status = "S2N_DECRYPT_TICKET"
            THEN IF c.cfg.decrypt_ok THEN c
                 ELSE SkipCacheLookup(
                        IF c.cfg.key_available
                        THEN [c EXCEPT !.ticket_status = "S2N_NEW_TICKET",
                                       !.handshake_type = SetFlag(c.handshake_type, WITH_SESSION_TICKET)]
                        ELSE c)
            ELSE CacheLookup(
                   IF c.ticket_status = "S2N_NEW_TICKET"
                   THEN [c EXCEPT !.handshake_type = SetFlag(c.handshake_type, WITH_SESSION_TICKET)]
                   ELSE c)
       ELSE CacheLookup(c)

\* mutant: the client certificate is given up altogether
s2n_conn_set_handshake_no_client_cert_NoAuth(c) ==
    IF c.cfg.auth # "OPTIONAL" THEN Fail(c, "S2N_ERR_BAD_MESSAGE", "set_handshake_no_client_cert")
    ELSE [c EXCEPT !.handshake_type = ClearFlag(c.handshake_type, CLIENT_AUTH)]

s2n_conn_set_handshake_no_client_cert(c) ==
    IF c.cfg.auth # "OPTIONAL" THEN Fail(c, "S2N_ERR_BAD_MESSAGE", "set_handshake_no_client_cert")
    ELSE [c EXCEPT !.handshake_type = SetFlag(c.handshake_type, NO_CLIENT_CERT)]

(***************************************************************************)
(* The per-message handlers.  A handler is opaque to the driver: a send    *)
(* function appends the message body to handshake.io, a receive function   *)
(* consumes what is at the read cursor.  Every invocation is recorded in   *)
(* calls, and how much the transcript holds at that moment in hashed, and  *)
(* where the read cursor of handshake.io is in cursor.                     *)
(* Every value handshake_type takes is recorded in type_history, with the  *)
(* message_number at which it was assigned.                                *)
(* The hello receivers call s2n_conn_set_handshake_type, the       *)
(* client-certificate handlers call s2n_conn_set_handshake_no_client_cert  *)
(* for an empty certificate.                                               *)
(***************************************************************************)
Body(c, kind) ==
    IF kind = "SERVER_HELLO_DONE" THEN << >>
    ELSE IF kind = "CLIENT_CERT" THEN (IF c.cfg.has_cert THEN << Ord(kind) >> ELSE << >>)
    ELSE [i \in 1..c.cfg.body_len |-> Ord(kind)]

IsCCS(kind) == state_machine(kind).record_type = TLS_CHANGE_CIPHER_SPEC

LogCall(c, kind, dir, payload) ==
    [c EXCEPT !.calls = Append(c.calls, [kind |-> kind, dir |-> dir, payload |-> payload]),
              !.hashed = Append(c.hashed, Len(c.transcript)),
              !.cursor = Append(c.cursor, c.io.rd)]

\* conn->handshake.handshake_type has been assigned
Retyped(c) ==
    IF c.handshake_type = c.type_history[Len(c.type_history)].type THEN c
    ELSE [c EXCEPT !.type_history =
                      Append(c.type_history, [type |-> c.handshake_type, at |-> c.message_number])]

SendHandler(c, kind) ==
    LET body == IF IsCCS(kind) THEN << 1 >> ELSE Body(c, kind)
        c1 == LogCall(c, kind, "send", body)
        c2 == IF kind = "CLIENT_CERT" /\ ~c.cfg.has_cert
              THEN Retyped(s2n_conn_set_handshake_no_client_cert(c1)) ELSE c1
    IN IF kind \in c.cfg.fail THEN Fail(c1, "S2N_ERR_HANDLER", kind)
       ELSE IF c2.ret < 0 THEN c2
       ELSE [c2 EXCEPT !.io = s2n_stuffer_write(c2.io, body)]

RecvHandler(c, kind) ==
    LET payload == s2n_stuffer_peek(c.io, s2n_stuffer_data_available(c.io))
        c1 == LogCall(c, kind, "recv", payload)
        c2 == [c1 EXCEPT !.io = s2n_stuffer_skip_read(c1.io, Len(payload))]
    IN IF kind \in c.cfg.fail THEN Fail(c1, "S2N_ERR_HANDLER", kind)
       ELSE IF IsCCS(kind) /\ payload # << 1 >> THEN Fail(c2, "S2N_ERR_BAD_MESSAGE", kind)
       ELSE IF kind \in {"CLIENT_HELLO", "SERVER_HELLO"}
            THEN Retyped(s2n_conn_set_handshake_type(c2))
       ELSE IF kind = "CLIENT_CERT" /\ payload = << >>
            THEN Retyped(s2n_conn_set_handshake_no_client_cert(c2))
       ELSE c2

\* a call through the NULL handler of APPLICATION_DATA is undefined: the build
\* either faults there or returns from it with some value
NullHandler(c) ==
    LET c1 == LogCall(c, ACTIVE_MESSAGE(c), "null", << >>)
    IN IF c.cfg.null_call = "fault" THEN [Fail(c1, "SIGSEGV", "handler") EXCEPT !.crashed = TRUE]
       ELSE IF c.cfg.null_call = "returns_error" THEN Fail(c1, "S2N_ERR_UNDEFINED", "handler")
       ELSE c1

\* ACTIVE_STATE(conn).handler[conn->mode] (conn)
CallHandler(c) ==
    LET kind == ACTIVE_MESSAGE(c)
        st == state_machine(kind)
    IN IF ~st.handler THEN NullHandler(c)
       ELSE IF st.writer = c.mode THEN SendHandler(c, kind)
       ELSE RecvHandler(c, kind)

s2n_sslv2_client_hello_recv(c) ==
    LET payload == s2n_stuffer_peek(c.io, s2n_stuffer_data_available(c.io))
        c1 == LogCall(c, "SSLV2_CLIENT_HELLO", "recv", payload)
    IN IF "SSLV2_CLIENT_HELLO" \in c.cfg.fail THEN Fail(c1, "S2N_ERR_HANDLER", "SSLV2_CLIENT_HELLO")
       ELSE Retyped(s2n_conn_set_handshake_type(c1))

s2n_connection_kill(c) == [c EXCEPT !.killed = TRUE]

(***************************************************************************)
(* The record layer.  s2n_record_write puts one record into conn->out;     *)
(* s2n_flush sends what is in conn->out, or reports that the transport     *)
(* would block (or has failed); s2n_read_full_record takes the next record *)
(* from the transport, or reports that it would block.                     *)
(***************************************************************************)
Record(type, data) == [type |-> type, data |-> data, sslv2 |-> FALSE, hdr |-> << >>]

s2n_record_write(c, record_type, data) == [c EXCEPT !.out = Append(c.out, Record(record_type, data))]

s2n_flush(c) ==
    IF c.out = << >> THEN c
    ELSE IF c.budget > 0
         THEN [c EXCEPT !.tx = c.tx \o c.out, !.out = << >>, !.budget = c.budget - 1]
    ELSE IF c.cfg.io_error THEN FailIO(c, "S2N_ERR_IO", "s2n_flush", "EPIPE")
    ELSE FailIO(c, "S2N_ERR_BLOCKED", "s2n_flush", "EWOULDBLOCK")

s2n_process_alert_fragment(c) ==
    IF c.inb = << >> THEN Fail(c, "S2N_ERR_BAD_MESSAGE", "s2n_process_alert_fragment")
    ELSE LET alert == c.alert_in \o c.inb
         IN IF Len(alert) < 2 THEN [c EXCEPT !.alert_in = alert, !.inb = << >>]
            ELSE IF alert[2] = 0 THEN [c EXCEPT !.alert_in = SubSeq(alert, 1, 2), !.inb = << >>,
                                                !.closed = TRUE]
            ELSE Fail([c EXCEPT !.alert_in = SubSeq(alert, 1, 2), !.closed = TRUE],
                      "S2N_ERR_ALERT", "s2n_process_alert_fragment")

(***************************************************************************)
(* handshake_write_io                                                      *)
(***************************************************************************)
\* mutant: the message is taken for new whenever nothing is left to send of it
FirstCallForMessage_NothingLeft(c) == s2n_stuffer_data_available(c.io) = 0

\* the first call for this message, not a repeated call after EWOULDBLOCK
FirstCallForMessage(c) == c.io.wiped

\* mutant: the bytes of every record are fed to the transcript
WriteHashes_AllRecords(record_type) == TRUE

\* the record types whose bytes the write path feeds to the transcript
WriteHashes(record_type) == record_type = TLS_HANDSHAKE

\* mutant: one record takes all that is left of the message
FragmentSize_AllLeft(c) == s2n_stuffer_data_available(c.io)

\* one record takes at most the record layer's maximum payload
FragmentSize(c) == Min(s2n_stuffer_data_available(c.io), c.cfg.max_payload)

\* the header of a handshake message, with the length still to be filled in
StartMessage(c, record_type) ==
    IF record_type = TLS_HANDSHAKE
    THEN s2n_handshake_write_header(c, ACTIVE_STATE(c).message_type) ELSE c

\* the handler has written the body: the length goes into the header
FinishMessage(h, record_type) ==
    IF h.ret < 0 THEN h
    ELSE IF record_type = TLS_HANDSHAKE THEN s2n_handshake_finish_header(h)
    ELSE h

PopulateHandshakeIO(c, record_type) ==
    FinishMessage(CallHandler(StartMessage(c, record_type)), record_type)

\* one fragment: into a record, into the transcript, and flushed
WriteFragment(c, record_type, out) ==
    LET c1 == s2n_record_write([c EXCEPT !.io = s2n_stuffer_skip_read(c.io, Len(out))],
                               record_type, out)
    IN s2n_flush(IF WriteHashes(record_type) THEN s2n_conn_update_handshake_hashes(c1, out)
                 ELSE c1)

RECURSIVE WriteRecords(_, _)
\* GUARD(s2n_flush(conn, &blocked)), then the loop goes on
AfterFragment(f, record_type) == IF f.ret < 0 THEN f ELSE WriteRecords(f, record_type)

WriteRecords(c, record_type) ==
    IF s2n_stuffer_data_available(c.io) > 0
    THEN AfterFragment(WriteFragment(c, record_type, s2n_stuffer_peek(c.io, FragmentSize(c))),
                       record_type)
    ELSE c

\* the message is sent: the buffers are wiped and the state machine advances
MessageWritten(w) ==
    IF w.ret < 0 THEN w
    ELSE s2n_advance_message([w EXCEPT !.out = << >>, !.io = s2n_stuffer_wipe])

WriteMessage(p, record_type) ==
    IF p.ret < 0 THEN p ELSE MessageWritten(WriteRecords(p, record_type))

handshake_write_io(c) ==
    WriteMessage(IF FirstCallForMessage(c)
                 THEN PopulateHandshakeIO(c, ACTIVE_STATE(c).record_type) ELSE c,
                 ACTIVE_STATE(c).record_type)

(***************************************************************************)
(* read_full_handshake_message: r = 1 more data is needed, r = 0 the whole *)
(* message is in handshake.io (read cursor at the payload), and ret = -1   *)
(* in c on an error.                                                       *)
(***************************************************************************)
\* mutant: a header may declare any body length
LengthAllowed_Any(n) == TRUE

\* the body length a header may declare
LengthAllowed(n) == n <= S2N_MAXIMUM_HANDSHAKE_MESSAGE_LENGTH

ReadBody(c) ==
    LET message_type == ParsedType(c)
        handshake_message_length == ParsedLength(c)
        c1 == s2n_handshake_parse_header(c)
    IN IF ~LengthAllowed(handshake_message_length)
       THEN [c |-> Fail(c1, "S2N_ERR_BAD_MESSAGE", "read_full_handshake_message"),
             r |-> -1, message_type |-> message_type]
       ELSE LET bytes_to_take == Min(handshake_message_length - s2n_stuffer_data_available(c1.io),
                                     Len(c1.inb))
                c2 == s2n_stuffer_copy_in(c1, bytes_to_take)
            IN IF s2n_stuffer_data_available(c2.io) = handshake_message_length
               THEN [c |-> c2, r |-> 0, message_type |-> message_type]
               ELSE [c |-> [c2 EXCEPT !.io = s2n_stuffer_reread(c2.io)], r |-> 1,
                     message_type |-> message_type]

read_full_handshake_message(c) ==
    LET current_handshake_data == s2n_stuffer_data_available(c.io)
    IN IF current_handshake_data < TLS_HANDSHAKE_HEADER_LENGTH
       THEN IF Len(c.inb) < TLS_HANDSHAKE_HEADER_LENGTH - current_handshake_data
            THEN [c |-> s2n_stuffer_copy_in(c, Len(c.inb)), r |-> 1, message_type |-> 0]
            ELSE ReadBody(s2n_stuffer_copy_in(c, TLS_HANDSHAKE_HEADER_LENGTH - current_handshake_data))
       ELSE ReadBody(c)

\* mutant: the header is left out of the transcript
s2n_handshake_conn_update_hashes_BodyOnly(c) ==
    LET c1 == [c EXCEPT !.io = s2n_stuffer_reread(c.io)]
        handshake_message_length == ParsedLength(c1)
        c2 == s2n_handshake_parse_header(c1)
    IN s2n_conn_update_handshake_hashes(c2,
           SubSeq(c2.io.data, TLS_HANDSHAKE_HEADER_LENGTH + 1,
                  TLS_HANDSHAKE_HEADER_LENGTH + handshake_message_length))

\* the bytes of the message in handshake.io: its header and the body the header declares
s2n_handshake_conn_update_hashes(c) ==
    LET c1 == [c EXCEPT !.io = s2n_stuffer_reread(c.io)]
        handshake_message_length == ParsedLength(c1)
        c2 == s2n_handshake_parse_header(c1)
    IN s2n_conn_update_handshake_hashes(c2,
           SubSeq(c2.io.data, 1, TLS_HANDSHAKE_HEADER_LENGTH + handshake_message_length))

\* after the handler: handshake.io and the record are wiped, the state machine advances
Sslv2Handled(h) ==
    IF h.ret < 0 THEN h
    ELSE s2n_advance_message(WipeRecord([h EXCEPT !.io = s2n_stuffer_wipe]))

Sslv2Hashed(c) ==
    s2n_conn_update_handshake_hashes(s2n_conn_update_handshake_hashes(c, c.hdr), c.inb)

s2n_handshake_handle_sslv2(c) ==
    IF ACTIVE_MESSAGE(c) # "CLIENT_HELLO" THEN Fail(c, "S2N_ERR_BAD_MESSAGE", "s2n_handshake_handle_sslv2")
    ELSE Sslv2Handled(s2n_sslv2_client_hello_recv(s2n_stuffer_copy_in(Sslv2Hashed(c), Len(c.inb))))

(***************************************************************************)
(* handshake_read_io                                                       *)
(***************************************************************************)
\* mutant: the switch is made whatever the auth-mode
ClientAuthUpgrade_AnyAuth(c, actual) ==
    IF /\ c.mode = "C"
       /\ actual = TLS_CLIENT_CERT_REQ
       /\ EXPECTED_MESSAGE_TYPE(c) = TLS_SERVER_HELLO_DONE
    THEN [c EXCEPT !.handshake_type = SetFlag(c.handshake_type, CLIENT_AUTH)]
    ELSE c

\* the client switches to the sequence with the CertificateRequest
ClientAuthUpgrade(c, actual) ==
    IF /\ c.mode = "C"
       /\ c.cfg.auth = "OPTIONAL"
       /\ actual = TLS_CLIENT_CERT_REQ
       /\ EXPECTED_MESSAGE_TYPE(c) = TLS_SERVER_HELLO_DONE
    THEN [c EXCEPT !.handshake_type = SetFlag(c.handshake_type, CLIENT_AUTH)]
    ELSE c

\* mutant: the repair is made whatever the mode of the connection
OcspOptOut_AnyMode(c, actual) ==
    IF /\ EXPECTED_MESSAGE_TYPE(c) = TLS_SERVER_CERT_STATUS
       /\ actual # TLS_SERVER_CERT_STATUS
    THEN [c EXCEPT !.handshake_type = ClearFlag(c.handshake_type, OCSP_STATUS)]
    ELSE c

\* the server chose not to send CertificateStatus
OcspOptOut(c, actual) ==
    IF /\ c.mode = "C"
       /\ EXPECTED_MESSAGE_TYPE(c) = TLS_SERVER_CERT_STATUS
       /\ actual # TLS_SERVER_CERT_STATUS
    THEN [c EXCEPT !.handshake_type = ClearFlag(c.handshake_type, OCSP_STATUS)]
    ELSE c

\* what remains of the record is looked at
RecordHasData(c) == Len(c.inb) > 0

\* mutant: r is returned and the connection is left as it is
HandlerResult_NoKill(r, c) ==
    IF r < 0 THEN [c EXCEPT !.ret = r]
    ELSE s2n_advance_message(c)

\* r < 0: s2n_connection_kill and return r; otherwise the state machine advances
HandlerResult(r, c) ==
    IF r < 0 THEN [s2n_connection_kill(c) EXCEPT !.ret = r]
    ELSE s2n_advance_message(c)

\* mutant: a message whose handler failed is not fed to the transcript
AfterHandler_HashOnSuccess(h) ==
    IF h.crashed THEN h
    ELSE IF h.ret < 0 THEN HandlerResult(h.ret, [h EXCEPT !.ret = 0, !.io = s2n_stuffer_wipe])
    ELSE HandlerResult(h.ret, [s2n_handshake_conn_update_hashes([h EXCEPT !.ret = 0])
                                 EXCEPT !.io = s2n_stuffer_wipe])

\* after the handler: transcript, wipe, and the handler's result
AfterHandler(h) ==
    IF h.crashed THEN h
    ELSE HandlerResult(h.ret, [s2n_handshake_conn_update_hashes([h EXCEPT !.ret = 0])
                                 EXCEPT !.io = s2n_stuffer_wipe])

CheckMessageType(c, actual) ==
    IF actual # EXPECTED_MESSAGE_TYPE(c)
    THEN Fail(c, "S2N_ERR_BAD_MESSAGE", "handshake_read_io")
    ELSE AfterHandler(CallHandler(c))

\* mutant: OCSP_STATUS is cleared before the switch to CLIENT_AUTH is considered
HandleMessage_OptOutFirst(c, actual) ==
    CheckMessageType(Retyped(ClientAuthUpgrade(Retyped(OcspOptOut(c, actual)), actual)), actual)

\* the complete message in handshake.io: repairs, type check, handler, transcript,
\* wipe, advance
HandleMessage(c, actual) ==
    CheckMessageType(Retyped(OcspOptOut(Retyped(ClientAuthUpgrade(c, actual)), actual)), actual)

RECURSIVE ReadHandshakeRecord(_)
\* the loop goes on while the record has data
AfterMessage(c) == IF c.ret < 0 THEN c ELSE ReadHandshakeRecord(c)

AfterReadFull(m) ==
    IF m.r < 0 THEN m.c
    ELSE IF m.r = 1 THEN WipeRecord(m.c)
    ELSE AfterMessage(HandleMessage(m.c, m.message_type))

ReadHandshakeRecord(c) ==
    IF RecordHasData(c) THEN AfterReadFull(read_full_handshake_message(c))
    ELSE WipeRecord(c)

ChangeCipherSpecHandled(h) ==
    IF h.ret < 0 THEN h
    ELSE s2n_advance_message(WipeRecord([h EXCEPT !.io = s2n_stuffer_wipe]))

ReadChangeCipherSpec(c) ==
    IF Len(c.inb) # 1 THEN Fail(c, "S2N_ERR_BAD_MESSAGE", "handshake_read_io")
    ELSE ChangeCipherSpecHandled(CallHandler(s2n_stuffer_copy_in(c, Len(c.inb))))

\* mutant: what is held of a handshake message is dropped with the record
OtherRecordDone_DropsMessage(c) ==
    IF c.ret < 0 THEN c ELSE WipeRecord([c EXCEPT !.io = s2n_stuffer_wipe])

OtherRecordDone(c) == IF c.ret < 0 THEN c ELSE WipeRecord(c)

ReadOtherRecord(c, record_type) ==
    OtherRecordDone(IF record_type = TLS_ALERT THEN s2n_process_alert_fragment(c) ELSE c)

DispatchRecord(c, record_type) ==
    IF record_type = TLS_APPLICATION_DATA THEN Fail(c, "S2N_ERR_BAD_MESSAGE", "handshake_read_io")
    ELSE IF record_type = TLS_CHANGE_CIPHER_SPEC THEN ReadChangeCipherSpec(c)
    ELSE IF record_type # TLS_HANDSHAKE THEN ReadOtherRecord(c, record_type)
    ELSE ReadHandshakeRecord(c)

\* s2n_read_full_record: the next record of the transport is in conn->in
s2n_read_full_record(c) ==
    [c EXCEPT !.rx = Tail(c.rx), !.inb = Head(c.rx).data, !.hdr = Head(c.rx).hdr]

AfterSslv2(c, record_type) == IF c.ret < 0 THEN c ELSE DispatchRecord(c, record_type)

handshake_read_io(c) ==
    IF c.rx = << >> THEN FailIO(c, "S2N_ERR_BLOCKED", "s2n_read_full_record", "EWOULDBLOCK")
    ELSE AfterSslv2(IF Head(c.rx).sslv2 THEN s2n_handshake_handle_sslv2(s2n_read_full_record(c))
                    ELSE s2n_read_full_record(c),
                    Head(c.rx).type)

(***************************************************************************)
(* s2n_negotiate                                                           *)
(***************************************************************************)
\* the loop condition: the terminal slot is the one written by both
HandshakeOver(c) == ACTIVE_STATE(c).writer = "B"

\* a write failure that is not EWOULDBLOCK
WriteFailed(w) == w.ret < 0 /\ w.err # "S2N_ERR_BLOCKED"

\* the failed write w is remembered, and one record is read
ReadOnce(w) ==
    handshake_read_io([w EXCEPT !.ret = 0, !.recovery_reads = w.recovery_reads + 1,
                                !.write_error = << w.err, w.sys_errno, w.debug_str >>])

\* mutant: whatever the read reports is returned
WriteErrorResult_KeepReadError(w, rd) ==
    [rd EXCEPT !.read_result = << rd.ret, rd.err >>, !.ret = -1]

\* an alert read takes precedence, otherwise the write's errno, s2n_errno and
\* debug string are put back
WriteErrorResult(w, rd) ==
    IF rd.ret < 0 /\ rd.err = "S2N_ERR_ALERT"
    THEN [rd EXCEPT !.read_result = << rd.ret, rd.err >>]
    ELSE [rd EXCEPT !.read_result = << rd.ret, rd.err >>,
                    !.ret = -1, !.err = w.err, !.sys_errno = w.sys_errno,
                    !.debug_str = w.debug_str]

\* the read after a failed write
ReadAfterWriteError(w) == WriteErrorResult(w, ReadOnce(w))

\* the session cache entry is deleted after a read that failed for good
ReadFailed(rd) ==
    IF rd.err # "S2N_ERR_BLOCKED" /\ rd.cfg.allowed_to_cache /\ rd.cfg.session_id_len > 0
    THEN [rd EXCEPT !.cache_deleted = TRUE]
    ELSE rd

\* the handshake has just ended: s2n_stuffer_resize(&conn->handshake.io, 0)
FreeHandshakeIO(c) == IF HandshakeOver(c) THEN [c EXCEPT !.io_freed = TRUE] ELSE c

\* mutant: the blocked status is left as the loop set it
NegotiateDone_KeepBlocked(c) == [c EXCEPT !.ret = 0]

\* past the loop: *blocked = S2N_NOT_BLOCKED; return 0
NegotiateDone(c) == [c EXCEPT !.blocked = "S2N_NOT_BLOCKED", !.ret = 0]

RECURSIVE NegotiateLoop(_)
AfterWrite(w) ==
    IF WriteFailed(w) THEN ReadAfterWriteError(w)
    ELSE NegotiateLoop(FreeHandshakeIO([w EXCEPT !.ret = 0]))

AfterRead(rd) ==
    IF rd.ret < 0 THEN ReadFailed(rd)
    ELSE NegotiateLoop(FreeHandshakeIO(rd))

\* the body of the loop after GUARD(s2n_flush(conn, blocked))
AfterFlush(f) ==
    IF f.ret < 0 THEN [f EXCEPT !.blocked = "S2N_BLOCKED_ON_WRITE"]
    ELSE IF ACTIVE_STATE(f).writer = f.mode
    THEN AfterWrite(handshake_write_io([f EXCEPT !.blocked = "S2N_BLOCKED_ON_WRITE"]))
    ELSE AfterRead(handshake_read_io([f EXCEPT !.blocked = "S2N_BLOCKED_ON_READ"]))

NegotiateLoop(c) ==
    IF HandshakeOver(c) THEN NegotiateDone(c)
    ELSE AfterFlush(s2n_flush(c))

\* one call of s2n_negotiate; the transport takes budget flushes and then blocks
s2n_negotiate(c, budget) ==
    NegotiateLoop([c EXCEPT !.ret = 0, !.budget = budget,
                            !.tx = << >>,
                            !.idle_calls = IF HandshakeOver(c) THEN c.idle_calls + 1 ELSE c.idle_calls])

(***************************************************************************)
(* The state after construction, for a configuration cfg.                  *)
(***************************************************************************)
NewConnection(mode, cfg, ticket_status) ==
    [mode |-> mode, cfg |-> cfg,
     handshake_type |-> INITIAL, message_number |-> 0,
     io |-> s2n_stuffer_wipe, out |-> << >>, inb |-> << >>, hdr |-> << >>, alert_in |-> << >>,
     ticket_status |-> ticket_status,
     transcript |-> << >>, calls |-> << >>, hashed |-> << >>, cursor |-> << >>,
     type_history |-> << [type |-> INITIAL, at |-> 0] >>,
     killed |-> FALSE, closed |-> FALSE, crashed |-> FALSE,
     quickacks |-> 0, corked |-> cfg.was_corked, cork_ops |-> << >>,
     cache_deleted |-> FALSE, io_freed |-> FALSE, cache_lookups |-> 0,
     rx |-> << >>, tx |-> << >>, budget |-> 0, idle_calls |-> 0,
     alert_sent |-> FALSE, called |-> FALSE, write_blocked |-> FALSE,
     recovery_reads |-> 0, write_error |-> << >>, read_result |-> << >>,
     ret |-> 0, err |-> "S2N_ERR_OK", sys_errno |-> "0", debug_str |-> "", blocked |-> "S2N_NOT_BLOCKED"]

\* the connection as the caller finds it after the call
AfterCall(c) ==
    [c EXCEPT !.tx = << >>, !.budget = 0, !.called = TRUE,
              !.write_blocked = c.write_blocked
                                \/ (c.ret < 0 /\ c.err = "S2N_ERR_BLOCKED"
                                    /\ c.blocked = "S2N_BLOCKED_ON_WRITE")]

\* the caller gives up a connection whose s2n_negotiate failed for good
Failed(c) == c.ret < 0 /\ c.err # "S2N_ERR_BLOCKED"

Peer(e) == IF e = "client" THEN "server" ELSE "client"

(***************************************************************************)
(* A client and a server, each driven by s2n_negotiate, over a transport   *)
(* that delivers every record in order.                                    *)
(***************************************************************************)
\* s2n_negotiate is called this often at most once the handshake is over
MaxIdleCalls == 1
\* records the transport holds for an endpoint before a flush to it blocks
MaxInFlight == 1

BaseCfg ==
    [auth |-> "NONE", kex_ephemeral |-> FALSE, can_send_ocsp |-> FALSE, sent_ocsp |-> FALSE,
     use_tickets |-> FALSE, decrypt_ok |-> FALSE, key_available |-> FALSE,
     allowed_to_cache |-> FALSE, cache_hit |-> FALSE, client_session_resumed |-> FALSE,
     session_id_len |-> 0, has_cert |-> TRUE, body_len |-> MaxBody, max_payload |-> MaxPayload,
     fail |-> {}, io_error |-> FALSE, null_call |-> "fault",
     corked_io |-> TRUE, was_corked |-> FALSE, managed_corked |-> TRUE]

Payloads == {2, MaxPayload}
\* the server's (can_send_ocsp) and the client's (server_sent_ocsp) view of stapling
OcspViews == {<<FALSE, FALSE>>, <<TRUE, TRUE>>, <<FALSE, TRUE>>}
\* the server's auth-mode, the client's auth-mode, whether the client has a certificate
AuthViews ==
    {<<"NONE", "NONE", TRUE>>, <<"REQUIRED", "REQUIRED", TRUE>>, <<"OPTIONAL", "OPTIONAL", TRUE>>,
     <<"OPTIONAL", "OPTIONAL", FALSE>>, <<"REQUIRED", "REQUIRED", FALSE>>,
     <<"NONE", "REQUIRED", TRUE>>, <<"REQUIRED", "OPTIONAL", FALSE>>}
\* who fails: the endpoint whose handler for one message fails, that message, and
\* the endpoint whose transport fails (a flush it cannot take fails instead of
\* blocking, as when the peer has gone away)
NoFailure == <<"none", "", "none">>
Failures ==
    {<<"client", "CLIENT_FINISHED", "none">>, <<"server", "CLIENT_FINISHED", "none">>,
     <<"server", "SERVER_HELLO", "none">>,
     <<"none", "", "client">>, <<"none", "", "server">>}

\* the negotiated parameters of a pair, and how the application set up the
\* transport of both endpoints: corked_io, corked by the application before the
\* handshake, managed by the library
Scenarios ==
    [resume : {"cache", "ticket"}, new_ticket : BOOLEAN, pfs : {FALSE}, ocsp : {<<FALSE, FALSE>>},
     auth : {<<"NONE", "NONE", TRUE>>}, failure : {NoFailure}, cork : {<<TRUE, FALSE, TRUE>>}]
    \cup
    [resume : {"none"}, new_ticket : BOOLEAN, pfs : BOOLEAN, ocsp : OcspViews, auth : AuthViews,
     failure : {NoFailure}, cork : {<<TRUE, FALSE, TRUE>>}]
    \cup
    [resume : {"none", "cache"}, new_ticket : {FALSE}, pfs : {FALSE}, ocsp : {<<FALSE, FALSE>>},
     auth : {<<"NONE", "NONE", TRUE>>, <<"REQUIRED", "REQUIRED", FALSE>>}, failure : Failures,
     cork : {<<TRUE, FALSE, TRUE>>}]
    \cup
    [resume : {"none", "cache"}, new_ticket : {FALSE}, pfs : {FALSE}, ocsp : {<<FALSE, FALSE>>},
     auth : {<<"NONE", "NONE", TRUE>>, <<"OPTIONAL", "OPTIONAL", TRUE>>}, failure : {NoFailure},
     cork : {<<FALSE, FALSE, FALSE>>, <<TRUE, TRUE, TRUE>>, <<TRUE, FALSE, FALSE>>}]

FailSet(e, s) == IF s.failure[1] = e THEN {s.failure[2]} ELSE {}
FailIOSet(e, s) == s.failure[3] = e

ServerCfg(s, p) ==
    [BaseCfg EXCEPT !.auth = s.auth[1], !.kex_ephemeral = s.pfs, !.can_send_ocsp = s.ocsp[1],
                    !.use_tickets = s.new_ticket \/ s.resume = "ticket",
                    !.decrypt_ok = s.resume = "ticket",
                    !.allowed_to_cache = s.resume = "cache", !.cache_hit = s.resume = "cache",
                    !.session_id_len = IF s.resume = "cache" THEN 32 ELSE 0,
                    !.max_payload = p, !.fail = FailSet("server", s),
                    !.io_error = FailIOSet("server", s),
                    !.corked_io = s.cork[1], !.was_corked = s.cork[2],
                    !.managed_corked = s.cork[3]]

ClientCfg(s, p) ==
    [BaseCfg EXCEPT !.auth = s.auth[2], !.kex_ephemeral = s.pfs, !.sent_ocsp = s.ocsp[2],
                    !.use_tickets = s.new_ticket,
                    !.client_session_resumed = s.resume # "none",
                    !.has_cert = s.auth[3],
                    !.max_payload = p, !.fail = FailSet("client", s),
                    !.io_error = FailIOSet("client", s),
                    !.corked_io = s.cork[1], !.was_corked = s.cork[2],
                    !.managed_corked = s.cork[3]]

ServerTicket(s) ==
    IF s.resume = "ticket" /\ ~s.new_ticket THEN "S2N_DECRYPT_TICKET"
    ELSE IF s.new_ticket THEN "S2N_NEW_TICKET" ELSE "S2N_NO_TICKET"

ClientTicket(s) == IF s.new_ticket THEN "S2N_NEW_TICKET" ELSE "S2N_NO_TICKET"

\* static char handshake_type_str[128][MAX_HANDSHAKE_TYPE_LEN] = {0}
NoNames == [t \in 0..127 |-> << >>]
\* no thread is calling s2n_connection_get_handshake_type_name
NoThreads == << >>

\* no scripted input: the peer is the other endpoint
NoFeed == [script |-> << >>, whole_pos |-> 0, frag_pos |-> 0, frag_off |-> 0, empties |-> 0]

Init ==
    \E s \in Scenarios, p \in Payloads :
        /\ conn = [e \in {"client", "server"} |->
                     IF e = "client" THEN NewConnection("C", ClientCfg(s, p), ClientTicket(s))
                     ELSE NewConnection("S", ServerCfg(s, p), ServerTicket(s))]
        /\ wire = [e \in {"client", "server"} |-> << >>]
        /\ fed = NoFeed
        /\ handshake_type_str = NoNames
        /\ thread = NoThreads

\* the application calls s2n_negotiate on endpoint e; the transport takes at most
\* what it has room for before a flush blocks
Negotiate(e) ==
    /\ ~Failed(conn[e])
    /\ ~conn[e].alert_sent
    /\ HandshakeOver(conn[e]) => conn[e].idle_calls < MaxIdleCalls
    /\ \E budget \in 0..(MaxInFlight - Min(MaxInFlight, Len(conn[Peer(e)].rx))) :
         LET c == s2n_negotiate(conn[e], budget)
         IN /\ conn' = [conn EXCEPT ![e] = AfterCall(c),
                                    ![Peer(e)].rx = conn[Peer(e)].rx \o c.tx]
            /\ wire' = [wire EXCEPT ![e] = wire[e] \o c.tx]
    /\ UNCHANGED <<fed, handshake_type_str, thread>>

\* what an endpoint that gives the handshake up may still send: a fatal alert, a
\* close_notify, or an empty alert record
Alerts == {<< 2, 40 >>, << 1, 0 >>, << >>}

\* an endpoint gives up because its s2n_negotiate failed, or, where the peer's
\* transport is the one that fails, because its application goes away
GivesUp(e) ==
    \/ Failed(conn[e])
    \/ conn[Peer(e)].cfg.io_error /\ conn[e].called /\ ~HandshakeOver(conn[e])

SendAlert(e) ==
    /\ GivesUp(e)
    /\ ~conn[e].alert_sent
    /\ \E a \in Alerts :
         conn' = [conn EXCEPT ![e].alert_sent = TRUE,
                              ![Peer(e)].rx = Append(conn[Peer(e)].rx, Record(TLS_ALERT, a))]
    /\ UNCHANGED <<wire, fed, handshake_type_str, thread>>

Next ==
    \/ Negotiate("client")
    \/ Negotiate("server")
    \/ SendAlert("client")
    \/ SendAlert("server")

Spec == Init /\ [][Next]_vars

\* a pair whose configurations lead both endpoints to the same sequence, with no
\* handler and no transport that fails
InitLive ==
    /\ Init
    /\ \A e \in DOMAIN conn : conn[e].cfg.fail = {} /\ ~conn[e].cfg.io_error
    /\ conn["server"].cfg.auth = "NONE" => conn["client"].cfg.auth # "REQUIRED"
    /\ conn["server"].cfg.auth # "NONE" => conn["client"].cfg.auth # "NONE"
    /\ conn["server"].cfg.auth = "REQUIRED" => conn["client"].cfg.has_cert
    /\ conn["client"].cfg.auth = "REQUIRED" => conn["client"].cfg.has_cert
    \* stapling: the two agree, or the client's opt-out makes up for it, which it
    \* does not when the message in place of the CertificateStatus is a
    \* CertificateRequest to a client with auth-mode optional
    /\ conn["server"].cfg.can_send_ocsp => conn["client"].cfg.sent_ocsp
    /\ (conn["client"].cfg.sent_ocsp /\ ~conn["server"].cfg.can_send_ocsp)
         => ~(/\ conn["client"].cfg.auth = "OPTIONAL"
              /\ conn["server"].cfg.auth # "NONE"
              /\ ~conn["server"].cfg.kex_ephemeral)
    /\ conn["client"].cfg.client_session_resumed
         <=> IF conn["server"].cfg.use_tickets /\ conn["server"].ticket_status = "S2N_DECRYPT_TICKET"
             THEN conn["server"].cfg.decrypt_ok
             ELSE conn["server"].cfg.allowed_to_cache /\ conn["server"].cfg.cache_hit

NextLive ==
    \/ Negotiate("client")
    \/ Negotiate("server")

\* a call of s2n_negotiate on endpoint e would change something: the state
\* predicate ENABLED <<Negotiate(e)>>_vars, written out
CallPending(e) ==
    /\ ~Failed(conn[e])
    /\ ~conn[e].alert_sent
    /\ HandshakeOver(conn[e]) => conn[e].idle_calls < MaxIdleCalls
    /\ \E budget \in 0..(MaxInFlight - Min(MaxInFlight, Len(conn[Peer(e)].rx))) :
          \E c \in {s2n_negotiate(conn[e], budget)} : AfterCall(c) # conn[e] \/ c.tx # << >>

\* the applications keep calling s2n_negotiate, and the transport, which may
\* refuse a record now, takes it in the end: WF_vars(Negotiate(e)) for both
\* endpoints, with the enabling condition as the state predicate CallPending(e)
SpecLive ==
    /\ InitLive
    /\ [][NextLive]_vars
    /\ \A e \in {"client", "server"} : []<>(~CallPending(e)) \/ []<><<Negotiate(e)>>_vars

(***************************************************************************)
(* One endpoint against a scripted peer.  The records of a script are      *)
(* delivered to two connections of the same configuration: to "whole" as   *)
(* the script has them, to "frag" with every handshake record cut into     *)
(* records of at most MaxChunk bytes at any byte boundary.  Each delivery  *)
(* is followed by a call of s2n_negotiate; the transport never blocks a    *)
(* write.                                                                  *)
(***************************************************************************)
\* empty handshake records the peer puts between the fragments of a script
MaxEmpty == 1
\* records the transport takes in one call
MaxFlushes == 8

Msg(type, body) == << type >> \o EncodeLength(Len(body)) \o body
Bytes(b) == [i \in 1..MaxBody |-> b]
\* a header that declares a body of S2N_MAXIMUM_HANDSHAKE_MESSAGE_LENGTH + 1 bytes
Oversize(type) == << type >> \o EncodeLength(S2N_MAXIMUM_HANDSHAKE_MESSAGE_LENGTH + 1)

HS(data) == Record(TLS_HANDSHAKE, data)
CCS(data) == Record(TLS_CHANGE_CIPHER_SPEC, data)

ClientHelloMsg == Msg(TLS_CLIENT_HELLO, Bytes(1))
ClientKeyMsg == Msg(TLS_CLIENT_KEY, Bytes(16))
ClientFinishedMsg == Msg(TLS_CLIENT_FINISHED, Bytes(20))
ServerHelloMsg == Msg(TLS_SERVER_HELLO, Bytes(2))
ServerCertMsg == Msg(TLS_SERVER_CERT, Bytes(11))
ServerCertReqMsg == Msg(TLS_SERVER_CERT_REQ, Bytes(13))
ServerHelloDoneMsg == Msg(TLS_SERVER_HELLO_DONE, << >>)
ServerFinishedMsg == Msg(TLS_SERVER_FINISHED, Bytes(20))

SrvFull == BaseCfg
SrvResumed == [BaseCfg EXCEPT !.allowed_to_cache = TRUE, !.cache_hit = TRUE, !.session_id_len = 32]
SrvOptional == [BaseCfg EXCEPT !.auth = "OPTIONAL"]
CliFull == BaseCfg
CliOptional == [BaseCfg EXCEPT !.auth = "OPTIONAL"]
CliOcsp == [BaseCfg EXCEPT !.sent_ocsp = TRUE]

Script(mode, cfg, records) == [mode |-> mode, cfg |-> cfg, records |-> records]

\* what the build does with the call through a NULL handler
NullCalls == {"fault", "returns_error", "returns"}

ReadScripts ==
    {\* handshakes that complete
     Script("S", SrvResumed, << HS(ClientHelloMsg), CCS(<< 1 >>), HS(ClientFinishedMsg) >>),
     Script("S", SrvFull, << HS(ClientHelloMsg), HS(ClientKeyMsg), CCS(<< 1 >>),
                             HS(ClientFinishedMsg) >>),
     Script("S", SrvOptional, << HS(ClientHelloMsg), HS(Msg(TLS_CLIENT_CERT, << >>) \o ClientKeyMsg),
                                 CCS(<< 1 >>), HS(ClientFinishedMsg) >>),
     Script("C", CliFull, << HS(ServerHelloMsg \o ServerCertMsg \o ServerHelloDoneMsg),
                             CCS(<< 1 >>), HS(ServerFinishedMsg) >>),
     Script("C", CliOptional, << HS(ServerHelloMsg \o ServerCertMsg \o ServerCertReqMsg
                                    \o ServerHelloDoneMsg) >>),
     Script("C", CliOcsp, << HS(ServerHelloMsg \o ServerCertMsg \o ServerHelloDoneMsg),
                             CCS(<< 1 >>), HS(ServerFinishedMsg) >>),
     \* the server staples, or leaves the CertificateStatus out
     Script("C", CliOcsp, << HS(ServerHelloMsg \o ServerCertMsg \o Msg(TLS_SERVER_CERT_STATUS, Bytes(22))
                                \o ServerHelloDoneMsg) >>),
     Script("C", [CliOcsp EXCEPT !.kex_ephemeral = TRUE],
            << HS(ServerHelloMsg \o ServerCertMsg),
               HS(Msg(TLS_SERVER_KEY, Bytes(12)) \o ServerHelloDoneMsg) >>),
     Script("C", CliOcsp, << HS(ServerHelloMsg \o ServerCertMsg), HS(Msg(TLS_SERVER_KEY, Bytes(12))) >>),
     Script("C", [CliOcsp EXCEPT !.auth = "OPTIONAL"],
            << HS(ServerHelloMsg \o ServerCertMsg \o ServerCertReqMsg \o ServerHelloDoneMsg) >>),
     \* a CertificateRequest where the ServerHelloDone is expected
     Script("C", CliOptional, << HS(ServerHelloMsg \o ServerCertMsg), HS(ServerCertReqMsg),
                                 HS(ServerHelloDoneMsg) >>),
     Script("C", [CliOptional EXCEPT !.has_cert = FALSE],
            << HS(ServerHelloMsg \o ServerCertMsg), HS(ServerCertReqMsg \o ServerHelloDoneMsg) >>),
     Script("C", CliOptional, << HS(ServerHelloMsg \o ServerCertMsg), HS(ServerCertReqMsg),
                                 HS(ServerCertReqMsg) >>),
     Script("C", CliFull, << HS(ServerHelloMsg \o ServerCertMsg), HS(ServerCertReqMsg) >>),
     Script("C", [CliFull EXCEPT !.auth = "REQUIRED"],
            << HS(ServerHelloMsg \o ServerCertMsg \o ServerCertReqMsg), HS(ServerCertReqMsg) >>),
     Script("S", SrvFull, << HS(ClientHelloMsg \o ServerHelloMsg \o ServerCertMsg
                                \o ServerCertReqMsg) >>),
     \* a server that staples is sent messages of its own flight
     Script("S", [SrvFull EXCEPT !.can_send_ocsp = TRUE],
            << HS(ClientHelloMsg \o ServerHelloMsg \o ServerCertMsg
                  \o Msg(TLS_SERVER_KEY, Bytes(12))) >>),
     \* an SSLv2 ClientHello, at the start and later
     Script("S", SrvFull, << [Record(1, Bytes(1)) EXCEPT !.sslv2 = TRUE, !.hdr = << 1, 3, 1 >>],
                             HS(ClientKeyMsg), CCS(<< 1 >>), HS(ClientFinishedMsg) >>),
     Script("S", SrvFull, << HS(ClientHelloMsg),
                             [Record(1, Bytes(1)) EXCEPT !.sslv2 = TRUE, !.hdr = << 1, 3, 1 >>] >>),
     \* an SSLv2 ClientHello whose header names another record type
     Script("S", SrvFull, << [Record(TLS_APPLICATION_DATA, Bytes(1))
                                EXCEPT !.sslv2 = TRUE, !.hdr = << TLS_APPLICATION_DATA, 3, 1 >>] >>),
     Script("S", SrvFull, << [Record(TLS_CHANGE_CIPHER_SPEC, << 1 >>)
                                EXCEPT !.sslv2 = TRUE, !.hdr = << TLS_CHANGE_CIPHER_SPEC, 3, 1 >>] >>),
     Script("S", SrvFull, << [Record(TLS_HANDSHAKE, Bytes(1))
                                EXCEPT !.sslv2 = TRUE, !.hdr = << TLS_HANDSHAKE, 3, 1 >>],
                             HS(ClientKeyMsg) >>),
     \* handlers that fail
     Script("S", [SrvFull EXCEPT !.fail = {"SSLV2_CLIENT_HELLO"}],
            << [Record(1, Bytes(1)) EXCEPT !.sslv2 = TRUE, !.hdr = << 1, 3, 1 >>] >>),
     Script("S", [SrvFull EXCEPT !.fail = {"CLIENT_KEY"}], << HS(ClientHelloMsg), HS(ClientKeyMsg) >>),
     Script("S", [SrvResumed EXCEPT !.fail = {"CLIENT_CHANGE_CIPHER_SPEC"}],
            << HS(ClientHelloMsg), CCS(<< 1 >>) >>),
     Script("S", [SrvFull EXCEPT !.fail = {"SERVER_CERT"}], << HS(ClientHelloMsg) >>),
     Script("C", [CliFull EXCEPT !.fail = {"CLIENT_KEY"}],
            << HS(ServerHelloMsg \o ServerCertMsg \o ServerHelloDoneMsg) >>),
     Script("C", [CliFull EXCEPT !.fail = {"CLIENT_CHANGE_CIPHER_SPEC"}],
            << HS(ServerHelloMsg \o ServerCertMsg), HS(ServerHelloDoneMsg) >>),
     \* records that are ignored, and alerts
     Script("S", SrvFull, << Record(24, << 9 >>), HS(ClientHelloMsg), Record(TLS_ALERT, << 1 >>),
                             Record(TLS_ALERT, << 0 >>) >>),
     Script("S", SrvFull, << HS(ClientHelloMsg), Record(TLS_ALERT, << 2, 40 >>) >>),
     \* between the fragments of one message
     Script("S", SrvFull, << HS(SubSeq(ClientHelloMsg, 1, 3)), Record(24, << 9 >>),
                             Record(TLS_ALERT, << 1 >>),
                             HS(SubSeq(ClientHelloMsg, 4, Len(ClientHelloMsg))) >>),
     \* inbound violations
     Script("S", SrvFull, << HS(ClientHelloMsg), Record(TLS_APPLICATION_DATA, << 7 >>) >>),
     Script("S", SrvFull, << HS(ClientHelloMsg), HS(ClientKeyMsg), CCS(<< >>) >>),
     \* a ChangeCipherSpec record for a handshake message, and the other way round
     Script("S", SrvFull, << HS(ClientHelloMsg), CCS(<< 1 >>) >>),
     Script("S", SrvFull, << HS(ClientHelloMsg), HS(ClientKeyMsg),
                             HS(Msg(TLS_HELLO_REQUEST, << 1 >>)) >>),
     Script("S", SrvFull, << HS(ClientHelloMsg), HS(ClientKeyMsg), CCS(<< 1, 1 >>) >>),
     Script("S", SrvFull, << HS(Oversize(TLS_CLIENT_HELLO)) >>),
     Script("S", SrvFull, << HS(ClientHelloMsg \o Oversize(TLS_CLIENT_KEY)) >>),
     Script("C", CliFull, << HS(ServerHelloMsg), HS(Oversize(TLS_SERVER_CERT)) >>),
     Script("S", SrvFull, << HS(ServerHelloMsg) >>),
     Script("C", CliFull, << HS(ServerHelloMsg \o ServerHelloDoneMsg) >>),
     \* bytes after the last message of the peer's flight, in the same record
     Script("S", SrvResumed, << HS(ClientHelloMsg), CCS(<< 1 >>),
                                HS(ClientFinishedMsg \o Msg(TLS_CLIENT_HELLO, << >>)) >>),
     Script("C", CliFull, << HS(ServerHelloMsg \o ServerCertMsg \o ServerHelloDoneMsg
                                \o ClientKeyMsg) >>)}
    \cup
    {Script("S", [SrvResumed EXCEPT !.null_call = u],
            << HS(ClientHelloMsg), CCS(<< 1 >>),
               HS(ClientFinishedMsg \o Msg(TLS_HELLO_REQUEST, << >>)) >>) : u \in NullCalls}

\* the connection after the first call of s2n_negotiate, waiting for the peer
Waiting(s) == AfterCall(s2n_negotiate(NewConnection(s.mode, s.cfg, "S2N_NO_TICKET"), MaxFlushes))

InitRead ==
    \E s \in ReadScripts :
        /\ conn = [k \in {"whole", "frag"} |-> Waiting(s)]
        /\ wire = [k \in {"whole", "frag"} |-> << >>]
        /\ fed = [script |-> s.records, whole_pos |-> 0, frag_pos |-> 0, frag_off |-> 0,
                  empties |-> 0]
        /\ handshake_type_str = NoNames
        /\ thread = NoThreads

\* the record is delivered to connection k, and s2n_negotiate is called
Deliver(k, rec) ==
    LET c == s2n_negotiate([conn[k] EXCEPT !.rx = Append(conn[k].rx, rec)], MaxFlushes)
    IN /\ conn' = [conn EXCEPT ![k] = AfterCall(c)]
       /\ wire' = [wire EXCEPT ![k] = wire[k] \o c.tx]

\* the next record of the script, as it is
FeedWhole ==
    /\ fed.whole_pos < Len(fed.script)
    /\ ~Failed(conn["whole"])
    /\ Deliver("whole", fed.script[fed.whole_pos + 1])
    /\ fed' = [fed EXCEPT !.whole_pos = fed.whole_pos + 1]
    /\ UNCHANGED <<handshake_type_str, thread>>

\* the next n bytes of a handshake record as a record of their own (none of them:
\* an empty record); a record of another type as it is
FeedFrag ==
    /\ fed.frag_pos < Len(fed.script)
    /\ ~Failed(conn["frag"])
    /\ LET rec == fed.script[fed.frag_pos + 1]
           left == Len(rec.data) - fed.frag_off
       IN IF rec.type = TLS_HANDSHAKE /\ ~rec.sslv2
          THEN \E n \in 0..Min(MaxChunk, left) :
                  /\ n = 0 => fed.empties < MaxEmpty
                  /\ Deliver("frag", HS(SubSeq(rec.data, fed.frag_off + 1, fed.frag_off + n)))
                  /\ fed' = IF n = 0 THEN [fed EXCEPT !.empties = fed.empties + 1]
                            ELSE IF n = left
                            THEN [fed EXCEPT !.frag_pos = fed.frag_pos + 1, !.frag_off = 0]
                            ELSE [fed EXCEPT !.frag_off = fed.frag_off + n]
          ELSE /\ Deliver("frag", rec)
               /\ fed' = [fed EXCEPT !.frag_pos = fed.frag_pos + 1]
    /\ UNCHANGED <<handshake_type_str, thread>>

NextRead ==
    \/ FeedWhole
    \/ FeedFrag

SpecRead == InitRead /\ [][NextRead]_vars

(***************************************************************************)
(* The variant table read slot by slot: a connection whose handshake_type  *)
(* is set to one of the 128 indices of handshakes[], advanced through the  *)
(* sixteen slots of its row.  The kinds read are collected in wire.        *)
(***************************************************************************)
\* static message_type_t handshakes[128][16]
HandshakeTypes == 0..127
RowSlots == 16

TableConnection(t) ==
    [NewConnection("S", BaseCfg, "S2N_NO_TICKET") EXCEPT !.handshake_type = t]

InitTable ==
    \E t \in HandshakeTypes :
        /\ conn = [k \in {"table"} |-> TableConnection(t)]
        /\ wire = [k \in {"table"} |-> << s2n_conn_get_current_message_type(TableConnection(t)) >>]
        /\ fed = NoFeed
        /\ handshake_type_str = NoNames
        /\ thread = NoThreads

\* the state machine advances to the next slot of the row
Advance ==
    /\ conn["table"].message_number < RowSlots - 1
    /\ conn' = [conn EXCEPT !["table"] = s2n_advance_message(conn["table"])]
    /\ wire' = [wire EXCEPT !["table"] =
                   Append(wire["table"],
                          s2n_conn_get_current_message_type(s2n_advance_message(conn["table"])))]
    /\ UNCHANGED <<fed, handshake_type_str, thread>>

NextTable == Advance

SpecTable == InitTable /\ [][NextTable]_vars

(***************************************************************************)
(* s2n_conn_set_handshake_type on its own: a connection with any of the    *)
(* negotiated parameters the function reads, and any bitset left in        *)
(* handshake_type.  The connection as it was before the call is kept in    *)
(* wire.                                                                   *)
(***************************************************************************)
\* the bitset the connection holds before the call
PreviousTypes ==
    {INITIAL,
     NEGOTIATED + FULL_HANDSHAKE + PERFECT_FORWARD_SECRECY + OCSP_STATUS + CLIENT_AUTH
        + WITH_SESSION_TICKET + NO_CLIENT_CERT}

TypedServers ==
    {[NewConnection("S", [BaseCfg EXCEPT !.auth = a, !.kex_ephemeral = pfs, !.can_send_ocsp = ocsp,
                                         !.use_tickets = tk[1], !.decrypt_ok = dec,
                                         !.key_available = key,
                                         !.allowed_to_cache = ch[1], !.cache_hit = ch[2]],
                     tk[2]) EXCEPT !.handshake_type = prev] :
        \* the auth-mode, use_tickets with the session_ticket_status, and
        \* s2n_allowed_to_cache_connection with what s2n_resume_from_cache finds
        a \in {"NONE", "OPTIONAL", "REQUIRED"}, pfs \in BOOLEAN, ocsp \in BOOLEAN,
        tk \in {<<FALSE, "S2N_NO_TICKET">>, <<TRUE, "S2N_NO_TICKET">>, <<TRUE, "S2N_NEW_TICKET">>,
                <<TRUE, "S2N_DECRYPT_TICKET">>},
        dec \in BOOLEAN, key \in BOOLEAN,
        ch \in {<<FALSE, FALSE>>, <<TRUE, FALSE>>, <<TRUE, TRUE>>}, prev \in PreviousTypes}

TypedClients ==
    {[NewConnection("C", [BaseCfg EXCEPT !.auth = a, !.kex_ephemeral = pfs, !.sent_ocsp = ocsp,
                                         !.use_tickets = tk[1],
                                         !.allowed_to_cache = ch[1], !.cache_hit = ch[2],
                                         !.client_session_resumed = res],
                     tk[2]) EXCEPT !.handshake_type = prev] :
        a \in {"NONE", "OPTIONAL", "REQUIRED"}, pfs \in BOOLEAN, ocsp \in BOOLEAN,
        tk \in {<<FALSE, "S2N_NO_TICKET">>, <<TRUE, "S2N_NO_TICKET">>, <<TRUE, "S2N_NEW_TICKET">>},
        ch \in {<<FALSE, FALSE>>, <<TRUE, FALSE>>, <<TRUE, TRUE>>}, res \in BOOLEAN,
        prev \in PreviousTypes}

InitType ==
    \E c \in TypedServers \cup TypedClients :
        /\ conn = [k \in {"typed"} |-> c]
        /\ wire = [k \in {"typed"} |-> << >>]
        /\ fed = NoFeed
        /\ handshake_type_str = NoNames
        /\ thread = NoThreads

\* the hello handler calls s2n_conn_set_handshake_type
SetType ==
    /\ wire["typed"] = << >>
    /\ conn' = [conn EXCEPT !["typed"] = s2n_conn_set_handshake_type(conn["typed"])]
    /\ wire' = [wire EXCEPT !["typed"] = << conn["typed"] >>]
    /\ UNCHANGED <<fed, handshake_type_str, thread>>

NextType == SetType

SpecType == InitType /\ [][NextType]_vars

(***************************************************************************)
(* s2n_connection_get_handshake_type_name called by two threads of the     *)
(* application, each on a connection of its own.  A row of                 *)
(* handshake_type_str is the sequence of what has been written to it, a    *)
(* flag name or a separator or a terminator (NUL) per cell; cells not yet  *)
(* written are NUL.  One s2n_strcpy is one step.  MAX_HANDSHAKE_TYPE_LEN   *)
(* is defined outside this file: a row is taken to have room for the       *)
(* longest name.                                                           *)
(***************************************************************************)
\* calls a thread makes
MaxCalls == 2

\* mutant: the names of the last two flags change places
handshake_type_names_Swapped ==
    << << "NEGOTIATED", "|" >>, << "FULL_HANDSHAKE", "|" >>, << "PERFECT_FORWARD_SECRECY", "|" >>,
       << "OCSP_STATUS", "|" >>, << "CLIENT_AUTH", "|" >>, << "NO_CLIENT_CERT", "|" >>,
       << "WITH_SESSION_TICKET", "|" >> >>

handshake_type_names ==
    << << "NEGOTIATED", "|" >>, << "FULL_HANDSHAKE", "|" >>, << "PERFECT_FORWARD_SECRECY", "|" >>,
       << "OCSP_STATUS", "|" >>, << "CLIENT_AUTH", "|" >>, << "WITH_SESSION_TICKET", "|" >>,
       << "NO_CLIENT_CERT", "|" >> >>

\* the next i from i on with handshake_type & (1 << i), or the end of the loop
NextFlag(t, i) ==
    IF \E j \in i..(Len(handshake_type_names) - 1) : HasFlag(t, 2^j)
    THEN CHOOSE j \in i..(Len(handshake_type_names) - 1) :
            HasFlag(t, 2^j) /\ \A l \in i..(j - 1) : ~HasFlag(t, 2^l)
    ELSE Len(handshake_type_names)

\* str is copied to p with its terminator; the new p is p + Len(str)
s2n_strcpy(row, p, str) ==
    [i \in 1..(IF Len(row) > p + Len(str) + 1 THEN Len(row) ELSE p + Len(str) + 1) |->
        IF i <= p THEN (IF i <= Len(row) THEN row[i] ELSE "NUL")
        ELSE IF i <= p + Len(str) THEN str[i - p]
        ELSE IF i = p + Len(str) + 1 THEN "NUL"
        ELSE row[i]]

\* the bitset of the second thread's connection when it is not that of the first
OtherType == NEGOTIATED + FULL_HANDSHAKE

Threads == {"one", "two"}

InitNames ==
    \E t \in HandshakeTypes, u \in HandshakeTypes :
        /\ u \in {t, OtherType}
        /\ conn = [k \in Threads |-> TableConnection(IF k = "one" THEN t ELSE u)]
        /\ wire = [k \in Threads |-> << >>]
        /\ fed = NoFeed
        /\ handshake_type_str = NoNames
        /\ thread = [k \in Threads |->
                       [pc |-> "idle", i |-> 0, p |-> 0, ret |-> "", calls |-> 0, alone |-> TRUE]]

\* thread k enters the function: "INITIAL" for INITIAL, the row if its first
\* character is set, otherwise the row is to be computed.  A call that is under
\* way at the same time as another for the same bitset is not alone.
Call(k) ==
    /\ thread[k].pc = "idle"
    /\ thread[k].calls < MaxCalls
    /\ LET handshake_type == conn[k].handshake_type
           row == handshake_type_str[handshake_type]
           same == {o \in Threads \ {k} :
                      thread[o].pc # "idle" /\ conn[o].handshake_type = handshake_type}
       IN thread' = [o \in Threads |->
                       IF o \in same THEN [thread[o] EXCEPT !.alone = FALSE]
                       ELSE IF o # k THEN thread[o]
                       ELSE IF handshake_type = INITIAL
                       THEN [thread[k] EXCEPT !.pc = "returned", !.ret = "INITIAL",
                                              !.alone = same = {}]
                       ELSE IF row # << >> /\ row[1] # "NUL"
                       THEN [thread[k] EXCEPT !.pc = "returned", !.ret = "handshake_type_str",
                                              !.alone = same = {}]
                       ELSE [thread[k] EXCEPT !.pc = "copy", !.p = 0,
                                              !.i = NextFlag(handshake_type, 0),
                                              !.alone = same = {}]]
    /\ UNCHANGED <<conn, wire, fed, handshake_type_str>>

\* the loop as far as the next s2n_strcpy, and past it
Copy(k) ==
    /\ thread[k].pc = "copy"
    /\ LET handshake_type == conn[k].handshake_type
           str == handshake_type_names[thread[k].i + 1]
           next == NextFlag(handshake_type, thread[k].i + 1)
       IN /\ handshake_type_str' =
                [handshake_type_str EXCEPT ![handshake_type] = s2n_strcpy(@, thread[k].p, str)]
          /\ thread' = [thread EXCEPT ![k].p = thread[k].p + Len(str),
                                      ![k].i = next,
                                      ![k].pc = IF next < Len(handshake_type_names)
                                                THEN "copy" ELSE "strip"]
    /\ UNCHANGED <<conn, wire, fed>>

\* the separator before p is overwritten with the terminator, and the row is returned
Strip(k) ==
    /\ thread[k].pc = "strip"
    /\ LET handshake_type == conn[k].handshake_type
           row == handshake_type_str[handshake_type]
           p == thread[k].p
       IN handshake_type_str' =
             IF p # 0 /\ row[p] = "|"
             THEN [handshake_type_str EXCEPT ![handshake_type][p] = "NUL"]
             ELSE handshake_type_str
    /\ thread' = [thread EXCEPT ![k].pc = "returned", ![k].ret = "handshake_type_str"]
    /\ UNCHANGED <<conn, wire, fed>>

\* the caller is done with the string it was given
Done(k) ==
    /\ thread[k].pc = "returned"
    /\ thread' = [thread EXCEPT ![k].pc = "idle", ![k].calls = thread[k].calls + 1,
                                ![k].alone = TRUE]
    /\ UNCHANGED <<conn, wire, fed, handshake_type_str>>

NextNames ==
    \/ \E k \in Threads : Call(k)
    \/ \E k \in Threads : Copy(k)
    \/ \E k \in Threads : Strip(k)
    \/ \E k \in Threads : Done(k)

SpecNames == InitNames /\ [][NextNames]_vars

(***************************************************************************)
(* Definitions used by the properties.                                     *)
(***************************************************************************)
Endpoints == DOMAIN conn

Kinds(calls) == [i \in 1..Len(calls) |-> calls[i].kind]

\* the sequence of the variant table without its last slot
BeforeLast(seq) == SubSeq(seq, 1, Len(seq) - 1)

\* the endpoint is writing the current message: its handler has run, the
\* message is not yet flushed to the last fragment
Writing(c) == ACTIVE_STATE(c).writer = c.mode /\ ~c.io.wiped

\* the messages whose handler has been invoked
Started(c) == c.message_number + (IF Writing(c) THEN 1 ELSE 0)

\* the direction of the handler of kind on an endpoint in mode
Direction(kind, mode) == IF state_machine(kind).writer = mode THEN "send" ELSE "recv"

Succeeded(c) == c.called /\ c.ret = 0

RECURSIVE Flatten(_)
Flatten(seqs) == IF seqs = << >> THEN << >> ELSE Head(seqs) \o Flatten(Tail(seqs))

\* the handshake bytes an endpoint has put into records, flushed or still in conn->out
HandshakeStream(e) ==
    LET recs == wire[e] \o conn[e].out
    IN Flatten([i \in 1..Len(recs) |-> IF recs[i].type = TLS_HANDSHAKE THEN recs[i].data ELSE << >>])

\* the complete messages of a byte stream, header and body
RECURSIVE MessagesOf(_)
MessagesOf(s) ==
    IF Len(s) < 4 \/ Len(s) < 4 + DecodeLength(SubSeq(s, 2, 4)) THEN << >>
    ELSE LET n == 4 + DecodeLength(SubSeq(s, 2, 4))
         IN << SubSeq(s, 1, n) >> \o MessagesOf(SubSeq(s, n + 1, Len(s)))

EndpointOf(writer) == IF writer = "C" THEN "client" ELSE "server"

\* how many of the first n slots of seq are HANDSHAKE-record messages written by writer
RECURSIVE CountWritten(_, _, _)
CountWritten(seq, n, writer) ==
    IF n = 0 THEN 0
    ELSE CountWritten(seq, n - 1, writer)
         + (IF /\ state_machine(seq[n]).writer = writer
               /\ state_machine(seq[n]).record_type = TLS_HANDSHAKE THEN 1 ELSE 0)

\* the bytes of the k-th slot of the sequence as they went over the wire
WireMessage(seq, k) ==
    LET st == state_machine(seq[k])
        msgs == MessagesOf(HandshakeStream(EndpointOf(st.writer)))
        i == CountWritten(seq, k, st.writer)
    IN IF st.record_type # TLS_HANDSHAKE THEN << >>
       ELSE IF i <= Len(msgs) THEN msgs[i]
       ELSE << "missing" >>

\* the handshake bytes, in wire order, of what the endpoint has written and read
ExpectedTranscript(e) ==
    LET c == conn[e]
        seq == Row(c.handshake_type)
        done == Flatten([k \in 1..c.message_number |-> WireMessage(seq, k)])
    IN IF Writing(c) /\ ACTIVE_STATE(c).record_type = TLS_HANDSHAKE
       THEN done \o SubSeq(c.io.data, 1, c.io.rd)
       ELSE done

(***************************************************************************)
(* C1: for a client and a server driven by s2n_negotiate, the handlers     *)
(* invoked on an endpoint are the messages of the sequence of its          *)
(* handshake type, in table order and each once, the send handler on the   *)
(* writer and the receive handler on the reader; when both have finished   *)
(* with the same type T these are all messages of T before                 *)
(* APPLICATION_DATA, and for T = NEGOTIATED they are CLIENT_HELLO,         *)
(* SERVER_HELLO, SERVER_CHANGE_CIPHER_SPEC, SERVER_FINISHED,               *)
(* CLIENT_CHANGE_CIPHER_SPEC, CLIENT_FINISHED.                             *)
(***************************************************************************)
C1_HandlersFollowSequence ==
    /\ \A e \in Endpoints :
         ~Failed(conn[e]) =>
            /\ Kinds(conn[e].calls) = SubSeq(Row(conn[e].handshake_type), 1, Started(conn[e]))
            /\ \A i \in 1..Len(conn[e].calls) :
                 conn[e].calls[i].dir = Direction(conn[e].calls[i].kind, conn[e].mode)
    /\ ( /\ \A e \in Endpoints : Succeeded(conn[e])
         /\ conn["client"].handshake_type = conn["server"].handshake_type )
       => \A e \in Endpoints :
            /\ ACTIVE_MESSAGE(conn[e]) = "APPLICATION_DATA"
            /\ Kinds(conn[e].calls) = BeforeLast(handshakes(conn[e].handshake_type))
            /\ conn[e].handshake_type = NEGOTIATED =>
                 Kinds(conn[e].calls) =
                    << "CLIENT_HELLO", "SERVER_HELLO", "SERVER_CHANGE_CIPHER_SPEC", "SERVER_FINISHED",
                       "CLIENT_CHANGE_CIPHER_SPEC", "CLIENT_FINISHED" >>

C1_Witness ==
    /\ \A e \in Endpoints : Succeeded(conn[e]) /\ conn[e].handshake_type = NEGOTIATED
    /\ Len(conn["client"].calls) = 6
    /\ Len(conn["server"].calls) = 6

\* what the statement of C2 is made of
IdleCall(e) ==
    /\ ACTIVE_MESSAGE(conn[e]) = "APPLICATION_DATA"
    /\ conn'[e].idle_calls = conn[e].idle_calls + 1

(***************************************************************************)
(* C2: s2n_negotiate returns success only when the current message is      *)
(* APPLICATION_DATA, and then the blocked status is S2N_NOT_BLOCKED; a     *)
(* call made when the current message is already APPLICATION_DATA returns  *)
(* success and changes nothing else: no record is flushed, read or         *)
(* written and no handler is invoked.                                      *)
(***************************************************************************)
C2_SuccessOnlyWhenOver ==
    /\ [](\A e \in Endpoints :
            Succeeded(conn[e]) =>
               /\ ACTIVE_MESSAGE(conn[e]) = "APPLICATION_DATA"
               /\ conn[e].blocked = "S2N_NOT_BLOCKED")
    /\ [][\A e \in Endpoints :
            IdleCall(e) =>
               /\ conn'[e] = [conn[e] EXCEPT !.idle_calls = conn[e].idle_calls + 1,
                                             !.ret = 0, !.blocked = "S2N_NOT_BLOCKED",
                                             !.called = TRUE]
               /\ conn'[Peer(e)] = conn[Peer(e)]
               /\ wire' = wire]_vars

C2_Witness ==
    \E e \in Endpoints :
        /\ Succeeded(conn[e])
        /\ conn[e].idle_calls > 0
        /\ Len(conn[e].calls) > 0

(***************************************************************************)
(* C5: the bytes an endpoint has fed to the transcript are the bytes of    *)
(* the HANDSHAKE-record messages it has written and read, headers          *)
(* included, each once and in wire order, whatever the fragmentation and   *)
(* however often a flush blocked; no byte of a CHANGE_CIPHER_SPEC record   *)
(* is among them.                                                          *)
(***************************************************************************)
C5_TranscriptIsWireOrder ==
    \A e \in Endpoints :
        ~Failed(conn[e]) => conn[e].transcript = ExpectedTranscript(e)

\* an endpoint that was blocked in a write has finished, past both its own and the
\* peer's CHANGE_CIPHER_SPEC, with messages that took several records
C5_Witness ==
    \E e \in Endpoints :
        /\ Succeeded(conn[e])
        /\ conn[e].write_blocked
        /\ conn[e].cfg.max_payload < 4
        /\ Len(conn[e].transcript) > 20

(***************************************************************************)
(* C7: when the client and the server have both completed the handshake,   *)
(* the bytes the client fed to its transcript are the bytes the server fed *)
(* to its transcript.                                                      *)
(***************************************************************************)
C7_TranscriptsAgree ==
    (\A e \in Endpoints : Succeeded(conn[e]))
       => conn["client"].transcript = conn["server"].transcript

C7_Witness ==
    /\ \A e \in Endpoints : Succeeded(conn[e])
    /\ conn["client"].transcript = conn["server"].transcript
    /\ Len(conn["client"].transcript) > 40
    /\ conn["client"].cfg.max_payload < 4

\* what the statement of C8 is made of
BlockedOnWrite(c) ==
    c.called /\ c.ret < 0 /\ c.err = "S2N_ERR_BLOCKED" /\ c.blocked = "S2N_BLOCKED_ON_WRITE"

\* the messages the send handlers of an endpoint produced, as they are framed
Produced(c) ==
    Flatten([i \in 1..Len(c.calls) |->
               IF c.calls[i].dir = "send" /\ ~IsCCS(c.calls[i].kind)
               THEN << state_machine(c.calls[i].kind).message_type >>
                    \o EncodeLength(Len(c.calls[i].payload)) \o c.calls[i].payload
               ELSE << >>])

\* what of the message being written is not yet in a record
Unsent(c) ==
    IF Writing(c) /\ ACTIVE_STATE(c).record_type = TLS_HANDSHAKE
    THEN s2n_stuffer_data_available(c.io) ELSE 0

CcsRecords(e) == Len(SelectSeq(wire[e] \o conn[e].out, LAMBDA r : r.type = TLS_CHANGE_CIPHER_SPEC))
CcsSends(c) == Len(SelectSeq(c.calls, LAMBDA x : x.dir = "send" /\ IsCCS(x.kind)))

IsPrefix(s, t) == Len(s) <= Len(t) /\ SubSeq(t, 1, Len(s)) = s

(***************************************************************************)
(* C8: a flush that blocks in the write path loses and repeats nothing.    *)
(* s2n_negotiate returns S2N_ERR_BLOCKED with the message it was writing   *)
(* still current and handshake.io not wiped; the next call resumes in that *)
(* message without invoking its handler again; what the endpoint has put   *)
(* into records is exactly what its send handlers produced, each fragment  *)
(* once; and the message number moves past a message only when the message *)
(* is sent to the last fragment.                                           *)
(***************************************************************************)
C8_BlockedWriteResumes ==
    /\ [](\A e \in Endpoints :
            /\ BlockedOnWrite(conn[e]) =>
                  /\ Writing(conn[e])
                  /\ conn[e].out # << >>
            /\ ~Failed(conn[e]) =>
                  /\ Len(conn[e].calls) = Started(conn[e])
                  /\ HandshakeStream(e)
                       = SubSeq(Produced(conn[e]), 1, Len(Produced(conn[e])) - Unsent(conn[e]))
                  /\ CcsRecords(e) = CcsSends(conn[e]))
    /\ [][\A e \in Endpoints :
            (BlockedOnWrite(conn[e]) /\ ~Failed(conn'[e])) =>
               /\ IsPrefix(conn[e].calls, conn'[e].calls)
               /\ conn'[e].message_number >= conn[e].message_number
               /\ conn'[e].message_number = conn[e].message_number =>
                     /\ conn'[e].calls = conn[e].calls
                     /\ conn'[e].handshake_type = conn[e].handshake_type
                     /\ conn'[e].io.data = conn[e].io.data
                     /\ conn'[e].io.rd >= conn[e].io.rd
               /\ conn'[e].message_number > conn[e].message_number =>
                     \/ Len(conn'[e].calls) = Len(conn[e].calls)
                     \/ conn'[e].calls[Len(conn[e].calls) + 1].kind
                           = Slot(conn'[e].handshake_type, conn[e].message_number + 1)]_vars

\* an endpoint that was blocked after the last fragment of a message went into a
\* record has finished the handshake
C8_Witness ==
    \E e \in Endpoints :
        /\ Succeeded(conn[e])
        /\ conn[e].write_blocked
        /\ conn[e].cfg.max_payload < 4

(***************************************************************************)
(* C9: when handshake_write_io fails with an error other than              *)
(* S2N_ERR_BLOCKED, s2n_negotiate does one handshake read and returns      *)
(* failure: with S2N_ERR_ALERT if that read failed with S2N_ERR_ALERT, and *)
(* otherwise with the write's s2n_errno, errno and debug string, whatever  *)
(* the read did.                                                           *)
(***************************************************************************)
C9_WriteErrorThenOneRead ==
    \A e \in Endpoints :
        conn[e].write_error # << >> =>
           /\ conn[e].ret < 0
           /\ conn[e].recovery_reads = 1
           /\ conn[e].write_error[1] # "S2N_ERR_BLOCKED"
           /\ conn[e].err # "S2N_ERR_BLOCKED"
           /\ IF conn[e].read_result = << -1, "S2N_ERR_ALERT" >>
              THEN conn[e].err = "S2N_ERR_ALERT"
              ELSE << conn[e].err, conn[e].sys_errno, conn[e].debug_str >> = conn[e].write_error

\* the read after the failed write failed on a malformed alert record, and the
\* write's error is what is returned
C9_Witness ==
    \E e \in Endpoints :
        /\ conn[e].write_error = << "S2N_ERR_IO", "EPIPE", "s2n_flush" >>
        /\ conn[e].read_result = << -1, "S2N_ERR_BAD_MESSAGE" >>
        /\ conn[e].err = "S2N_ERR_IO"
        /\ conn[e].sys_errno = "EPIPE"

(***************************************************************************)
(* Claims about one endpoint against a scripted peer (SpecRead).           *)
(***************************************************************************)
\* the populated slots of the sequence of handshake type t
Populated(t) == Len(handshakes(t))

BadMessage(c) == c.ret < 0 /\ c.err = "S2N_ERR_BAD_MESSAGE"

\* connection k has been given all of the script, or has failed before
AllFed(k) ==
    \/ Failed(conn[k])
    \/ IF k = "whole" THEN fed.whole_pos = Len(fed.script) ELSE fed.frag_pos = Len(fed.script)

(***************************************************************************)
(* C3: message_number is always a valid index into the sequence of the     *)
(* current handshake_type: it never points past the last populated slot.   *)
(***************************************************************************)
C3_MessageNumberInSequence ==
    \A k \in DOMAIN conn : conn[k].message_number < Populated(conn[k].handshake_type)

(***************************************************************************)
(* C4: message_number never decreases, and once the current message is     *)
(* APPLICATION_DATA nothing changes message_number or handshake_type and   *)
(* no handler is invoked, whatever bytes follow the final message in its   *)
(* record.                                                                 *)
(***************************************************************************)
C4_FrozenAtApplicationData ==
    /\ [](\A k \in DOMAIN conn :
            \A i \in 1..Len(conn[k].calls) : conn[k].calls[i].kind # "APPLICATION_DATA")
    /\ [][\A k \in DOMAIN conn :
            /\ conn'[k].message_number >= conn[k].message_number
            /\ HandshakeOver(conn[k]) =>
                  /\ conn'[k].message_number = conn[k].message_number
                  /\ conn'[k].handshake_type = conn[k].handshake_type
                  /\ conn'[k].calls = conn[k].calls]_vars

(***************************************************************************)
(* C6: cutting the handshake records of an inbound stream at any byte      *)
(* boundaries changes nothing: the same handlers are invoked with the same *)
(* payloads, message_number and handshake_type end the same, and the       *)
(* fragmented stream fails with BAD_MESSAGE exactly if the whole one does. *)
(***************************************************************************)
C6_FragmentationTransparent ==
    (AllFed("whole") /\ AllFed("frag")) =>
        /\ conn["frag"].calls = conn["whole"].calls
        /\ conn["frag"].message_number = conn["whole"].message_number
        /\ conn["frag"].handshake_type = conn["whole"].handshake_type
        /\ BadMessage(conn["frag"]) <=> BadMessage(conn["whole"])

\* what the statement of C10 is made of
\* the record that this step delivers to connection k, if it delivers one
Delivered(k) ==
    IF k = "whole"
    THEN (IF fed'.whole_pos # fed.whole_pos THEN << fed.script[fed.whole_pos + 1] >> ELSE << >>)
    ELSE IF fed'.frag_pos # fed.frag_pos
    THEN LET rec == fed.script[fed.frag_pos + 1]
         IN << [rec EXCEPT !.data = SubSeq(rec.data, fed.frag_off + 1, Len(rec.data))] >>
    ELSE IF fed'.frag_off # fed.frag_off
    THEN << HS(SubSeq(fed.script[fed.frag_pos + 1].data, fed.frag_off + 1, fed'.frag_off)) >>
    ELSE << >>

\* the bytes of the message that is being read, with those the record brings
Pending(c, rec) == c.io.data \o rec.data

\* the record brings the rest of a header that declares too long a body
OversizeHeader(c, rec) ==
    /\ rec.type = TLS_HANDSHAKE
    /\ Len(c.io.data) < TLS_HANDSHAKE_HEADER_LENGTH
    /\ Len(Pending(c, rec)) >= TLS_HANDSHAKE_HEADER_LENGTH
    /\ DecodeLength(SubSeq(Pending(c, rec), 2, 4)) > S2N_MAXIMUM_HANDSHAKE_MESSAGE_LENGTH

InboundViolation(c, rec) ==
    /\ ~rec.sslv2
    /\ \/ rec.type = TLS_APPLICATION_DATA
       \/ rec.type = TLS_CHANGE_CIPHER_SPEC /\ Len(rec.data) # 1
       \/ OversizeHeader(c, rec)

(***************************************************************************)
(* C10: a handshake header that declares a body longer than                *)
(* S2N_MAXIMUM_HANDSHAKE_MESSAGE_LENGTH, an APPLICATION_DATA record, and a *)
(* CHANGE_CIPHER_SPEC record whose payload is not one byte each make the   *)
(* read fail with BAD_MESSAGE; no handler is invoked for it, and           *)
(* message_number and handshake_type stay as they were.                    *)
(***************************************************************************)
C10_InboundViolationsRejected ==
    [][\A k \in DOMAIN conn :
          (/\ Delivered(k) # << >>
           /\ ~HandshakeOver(conn[k])
           /\ InboundViolation(conn[k], Delivered(k)[1])) =>
              /\ BadMessage(conn'[k])
              /\ conn'[k].calls = conn[k].calls
              /\ conn'[k].message_number = conn[k].message_number
              /\ conn'[k].handshake_type = conn[k].handshake_type
              /\ conn'[k].transcript = conn[k].transcript]_vars

\* a client that had handled the ServerHello was given, in fragments, a header
\* declaring too long a body, and has failed with BAD_MESSAGE
C10_Witness ==
    /\ BadMessage(conn["frag"])
    /\ conn["frag"].mode = "C"
    /\ conn["frag"].debug_str = "read_full_handshake_message"
    /\ Len(conn["frag"].calls) = 2
    /\ conn["frag"].io.data = Oversize(TLS_SERVER_CERT)
    /\ conn["frag"].message_number = 2

\* what the statement of C11 is made of
\* the message at the head of the bytes that are being read
HeadLength(bytes) == DecodeLength(SubSeq(bytes, 2, 4))
HeadComplete(bytes) ==
    /\ Len(bytes) >= TLS_HANDSHAKE_HEADER_LENGTH
    /\ LengthAllowed(HeadLength(bytes))
    /\ Len(bytes) >= TLS_HANDSHAKE_HEADER_LENGTH + HeadLength(bytes)
HeadType(bytes) == bytes[1]
HeadBody(bytes) == SubSeq(bytes, TLS_HANDSHAKE_HEADER_LENGTH + 1,
                          TLS_HANDSHAKE_HEADER_LENGTH + HeadLength(bytes))

\* this step gives connection k a handshake record that completes a message
CompletesMessage(k) ==
    /\ Delivered(k) # << >>
    /\ Delivered(k)[1].type = TLS_HANDSHAKE
    /\ ~Delivered(k)[1].sslv2
    /\ HeadComplete(Pending(conn[k], Delivered(k)[1]))

\* the message this step completes for connection k
Completed(k) == Pending(conn[k], Delivered(k)[1])

\* a client at SERVER_CERT_STATUS is given a complete message of another type
OcspLeftOut(k) ==
    /\ CompletesMessage(k)
    /\ conn[k].mode = "C"
    /\ ACTIVE_MESSAGE(conn[k]) = "SERVER_CERT_STATUS"
    /\ HeadType(Completed(k)) # TLS_SERVER_CERT_STATUS

\* the receive handler of kind is the next handler invoked, with the body of the message
AcceptedAs(k, kind) ==
    /\ Len(conn'[k].calls) > Len(conn[k].calls)
    /\ SubSeq(conn'[k].calls, 1, Len(conn[k].calls)) = conn[k].calls
    /\ conn'[k].calls[Len(conn[k].calls) + 1]
          = [kind |-> kind, dir |-> "recv", payload |-> HeadBody(Completed(k))]
    /\ conn'[k].message_number > conn[k].message_number

\* the message is refused where it stands
RefusedAt(k, t) ==
    /\ BadMessage(conn'[k])
    /\ conn'[k].calls = conn[k].calls
    /\ conn'[k].message_number = conn[k].message_number
    /\ conn'[k].handshake_type = t

\* the slot of the current position in the sequence without OCSP_STATUS
WithoutOcsp(c) == Slot(ClearFlag(c.handshake_type, OCSP_STATUS), c.message_number)

(***************************************************************************)
(* C11 as stated: on a client whose current message is SERVER_CERT_STATUS, *)
(* a complete message of any other type clears OCSP_STATUS and is then     *)
(* accepted: its handler is invoked, the position advances and the         *)
(* handshake goes on without error.                                        *)
(***************************************************************************)
C11_AnyOtherTypeAccepted ==
    [][\A k \in DOMAIN conn :
          OcspLeftOut(k) =>
             /\ ~HasFlag(conn'[k].handshake_type, OCSP_STATUS)
             /\ AcceptedAs(k, WithoutOcsp(conn[k]))
             /\ ~BadMessage(conn'[k])]_vars

(***************************************************************************)
(* C11: on a client whose current message is SERVER_CERT_STATUS, a         *)
(* complete message of any other type clears OCSP_STATUS at the same       *)
(* message_number; the message is then accepted (its receive handler is    *)
(* invoked with its body and the position advances) if its type is the one *)
(* the sequence without OCSP_STATUS has at that position, and is refused   *)
(* with BAD_MESSAGE otherwise.  A server never clears OCSP_STATUS.         *)
(***************************************************************************)
C11_OcspOptOut ==
    /\ [][\A k \in DOMAIN conn :
            OcspLeftOut(k) =>
               /\ ~HasFlag(conn'[k].handshake_type, OCSP_STATUS)
               /\ IF HeadType(Completed(k)) = state_machine(WithoutOcsp(conn[k])).message_type
                  THEN AcceptedAs(k, WithoutOcsp(conn[k]))
                  ELSE RefusedAt(k, ClearFlag(conn[k].handshake_type, OCSP_STATUS))]_vars
    /\ [](\A k \in DOMAIN conn :
            (/\ conn[k].mode = "S"
             /\ HasFlag(conn[k].handshake_type, FULL_HANDSHAKE)
             /\ conn[k].cfg.can_send_ocsp \/ conn[k].cfg.sent_ocsp) =>
               HasFlag(conn[k].handshake_type, OCSP_STATUS))

\* a client that expected the CertificateStatus has taken the ServerKeyExchange
\* in its place and gone on to the end of its own flight
C11_Witness ==
    /\ conn["frag"].mode = "C"
    /\ conn["frag"].cfg.sent_ocsp
    /\ conn["frag"].handshake_type = NEGOTIATED + FULL_HANDSHAKE + PERFECT_FORWARD_SECRECY
    /\ Len(conn["frag"].calls) > 4
    /\ conn["frag"].calls[3].kind = "SERVER_CERT"
    /\ conn["frag"].calls[4].kind = "SERVER_KEY"
    /\ ~Failed(conn["frag"])

\* a server whose current message is SERVER_CERT_STATUS has refused a message of
\* another type and kept OCSP_STATUS
C11_ServerWitness ==
    /\ conn["whole"].mode = "S"
    /\ ACTIVE_MESSAGE(conn["whole"]) = "SERVER_CERT_STATUS"
    /\ HasFlag(conn["whole"].handshake_type, OCSP_STATUS)
    /\ BadMessage(conn["whole"])

\* what the statement of C12 is made of
\* a connection at SERVER_HELLO_DONE is given a complete CertificateRequest
CertReqForHelloDone(k) ==
    /\ CompletesMessage(k)
    /\ ACTIVE_MESSAGE(conn[k]) = "SERVER_HELLO_DONE"
    /\ HeadType(Completed(k)) = TLS_CLIENT_CERT_REQ

WithClientAuth(c) == SetFlag(c.handshake_type, CLIENT_AUTH)

\* the sequence of t has SERVER_CERT_REQ at n, SERVER_HELLO_DONE next, and a
\* CLIENT_CERT further on
UpgradedSequence(t, n) ==
    /\ Slot(t, n) = "SERVER_CERT_REQ"
    /\ Slot(t, n + 1) = "SERVER_HELLO_DONE"
    /\ \E i \in (n + 2)..(Populated(t) - 1) : Slot(t, i) = "CLIENT_CERT"

Upgraded(k) ==
    /\ ClearFlag(conn'[k].handshake_type, NO_CLIENT_CERT) = WithClientAuth(conn[k])
    /\ AcceptedAs(k, "SERVER_CERT_REQ")
    /\ UpgradedSequence(WithClientAuth(conn[k]), conn[k].message_number)

Terminated(seq) ==
    /\ seq # << >>
    /\ seq[Len(seq)] = "APPLICATION_DATA"
    /\ \A i \in 1..(Len(seq) - 1) : seq[i] # "APPLICATION_DATA"

(***************************************************************************)
(* C13: the handshake type a connection holds always has a non-empty       *)
(* sequence in the table; the sequence of INITIAL is CLIENT_HELLO,         *)
(* SERVER_HELLO, and every other one ends with APPLICATION_DATA and has    *)
(* APPLICATION_DATA in no earlier slot.                                    *)
(***************************************************************************)
C13_SequencesTerminated ==
    \A k \in DOMAIN conn :
        IF conn[k].handshake_type = INITIAL
        THEN handshakes(INITIAL) = << "CLIENT_HELLO", "SERVER_HELLO" >>
        ELSE Terminated(handshakes(conn[k].handshake_type))

\* both endpoints have completed a handshake in which the client sent no certificate
C13_Witness ==
    /\ \A e \in DOMAIN conn : Succeeded(conn[e])
    /\ \E e \in DOMAIN conn :
          /\ HasFlag(conn[e].handshake_type, NO_CLIENT_CERT)
          /\ HasFlag(conn[e].handshake_type, PERFECT_FORWARD_SECRECY)
          /\ HasFlag(conn[e].handshake_type, WITH_SESSION_TICKET)

(***************************************************************************)
(* Claims about the variant table (SpecTable).                             *)
(***************************************************************************)
\* what the statement of C14 is made of
Opt(present, kind) == IF present THEN << kind >> ELSE << >>

\* the ordering rule for a full handshake
FullRule(t) ==
    << "CLIENT_HELLO", "SERVER_HELLO", "SERVER_CERT" >>
    \o Opt(HasFlag(t, OCSP_STATUS), "SERVER_CERT_STATUS")
    \o Opt(HasFlag(t, PERFECT_FORWARD_SECRECY), "SERVER_KEY")
    \o Opt(HasFlag(t, CLIENT_AUTH), "SERVER_CERT_REQ")
    \o << "SERVER_HELLO_DONE" >>
    \o Opt(HasFlag(t, CLIENT_AUTH), "CLIENT_CERT")
    \o << "CLIENT_KEY" >>
    \o Opt(HasFlag(t, CLIENT_AUTH) /\ ~HasFlag(t, NO_CLIENT_CERT), "CLIENT_CERT_VERIFY")
    \o << "CLIENT_CHANGE_CIPHER_SPEC", "CLIENT_FINISHED" >>
    \o Opt(HasFlag(t, WITH_SESSION_TICKET), "SERVER_NEW_SESSION_TICKET")
    \o << "SERVER_CHANGE_CIPHER_SPEC", "SERVER_FINISHED", "APPLICATION_DATA" >>

\* the ordering rule for a resumed handshake
ResumedRule(t) ==
    << "CLIENT_HELLO", "SERVER_HELLO" >>
    \o Opt(HasFlag(t, WITH_SESSION_TICKET), "SERVER_NEW_SESSION_TICKET")
    \o << "SERVER_CHANGE_CIPHER_SPEC", "SERVER_FINISHED", "CLIENT_CHANGE_CIPHER_SPEC",
          "CLIENT_FINISHED", "APPLICATION_DATA" >>

RuleSequence(t) == IF HasFlag(t, FULL_HANDSHAKE) THEN FullRule(t) ELSE ResumedRule(t)

\* the row of t has an initializer: some slot of it is not zero
InTable(t) == \E i \in 0..(RowSlots - 1) : Slot(t, i) # MessageKinds[1]

\* the slots read so far
SlotsRead == wire["table"]

(***************************************************************************)
(* C14: for every handshake type other than INITIAL that has a row in the  *)
(* table, the slots of the row are, in order, the messages the ordering    *)
(* rule gives for its flags (full or resumed), ending with                 *)
(* APPLICATION_DATA; the slots after it are unfilled.                      *)
(***************************************************************************)
C14_TableFollowsRule ==
    LET c == conn["table"]
        t == c.handshake_type
        rule == RuleSequence(t)
    IN (InTable(t) /\ t # INITIAL) =>
          /\ handshakes(t) = rule
          /\ SlotsRead = [i \in 1..(c.message_number + 1) |->
                            IF i <= Len(rule) THEN rule[i] ELSE MessageKinds[1]]

\* the longest row, read to its last slot
C14_Witness ==
    /\ conn["table"].handshake_type
          = NEGOTIATED + FULL_HANDSHAKE + PERFECT_FORWARD_SECRECY + OCSP_STATUS + CLIENT_AUTH
            + WITH_SESSION_TICKET
    /\ conn["table"].message_number = RowSlots - 1
    /\ ACTIVE_MESSAGE(conn["table"]) = "APPLICATION_DATA"
    /\ Len(SlotsRead) = RowSlots

\* what the statement of C15 is made of
\* the bitsets the statement lists as absent
Illegal(t) ==
    \/ HasFlag(t, NO_CLIENT_CERT) /\ ~HasFlag(t, CLIENT_AUTH)
    \/ /\ ~HasFlag(t, FULL_HANDSHAKE)
       /\ \/ HasFlag(t, PERFECT_FORWARD_SECRECY)
          \/ HasFlag(t, OCSP_STATUS)
          \/ HasFlag(t, CLIENT_AUTH)
    \/ ~HasFlag(t, NEGOTIATED) /\ t # INITIAL

RowsInTable == Cardinality({t \in HandshakeTypes : InTable(t)})

(***************************************************************************)
(* C15 as stated: the table holds a sequence for exactly 28 bitsets, and   *)
(* a bitset has a sequence exactly if it is not one of the illegal ones.   *)
(***************************************************************************)
C15_TwentyEightRows ==
    /\ InTable(conn["table"].handshake_type) <=> ~Illegal(conn["table"].handshake_type)
    /\ RowsInTable = 28

(***************************************************************************)
(* C15: the table holds a sequence for exactly 27 bitsets, INITIAL and 26  *)
(* negotiated ones, and for no other: a bitset has a sequence exactly if   *)
(* it is not one that has NO_CLIENT_CERT without CLIENT_AUTH, or           *)
(* PERFECT_FORWARD_SECRECY, OCSP_STATUS or CLIENT_AUTH without             *)
(* FULL_HANDSHAKE, or that lacks NEGOTIATED and is not INITIAL.  Every     *)
(* slot of an absent row reads as zero.                                    *)
(***************************************************************************)
C15_TwentySevenRows ==
    /\ InTable(conn["table"].handshake_type) <=> ~Illegal(conn["table"].handshake_type)
    /\ Illegal(conn["table"].handshake_type) =>
          \A i \in 1..Len(SlotsRead) : SlotsRead[i] = MessageKinds[1]
    /\ RowsInTable = 27

\* the row of NEGOTIATED | FULL_HANDSHAKE | NO_CLIENT_CERT read to its last slot
C15_Witness ==
    /\ conn["table"].handshake_type = NEGOTIATED + FULL_HANDSHAKE + NO_CLIENT_CERT
    /\ conn["table"].message_number = RowSlots - 1
    /\ \A i \in 1..Len(SlotsRead) : SlotsRead[i] = "CLIENT_HELLO"

(***************************************************************************)
(* Claims about s2n_conn_set_handshake_type (SpecType).                    *)
(***************************************************************************)
\* what the statement of C16 is made of
TypeSet == wire["typed"] # << >>
Before == wire["typed"][1]
After == conn["typed"]

\* tickets are enabled and the client presented a ticket
TicketPresented == Before.cfg.use_tickets /\ Before.ticket_status = "S2N_DECRYPT_TICKET"

NoLookup == After.cache_lookups = Before.cache_lookups

\* the flags of t other than WITH_SESSION_TICKET
ButTicket(t) == ClearFlag(t, WITH_SESSION_TICKET)

(***************************************************************************)
(* C16 as stated: when tickets are enabled and the ticket the client       *)
(* presented decrypts, the resulting bitset has WITH_SESSION_TICKET        *)
(* exactly if an encrypt-decrypt key is available, and the session cache   *)
(* is not looked up.                                                       *)
(***************************************************************************)
C16_TicketFlagOnDecrypt ==
    (TypeSet /\ TicketPresented /\ Before.cfg.decrypt_ok) =>
       /\ HasFlag(After.handshake_type, WITH_SESSION_TICKET) <=> Before.cfg.key_available
       /\ NoLookup

(***************************************************************************)
(* C16: when tickets are enabled and the client presented a ticket, the    *)
(* session cache is not looked up.  If the ticket decrypts, the function   *)
(* returns at once with a resumed bitset: NEGOTIATED and no flag but, at   *)
(* most, a WITH_SESSION_TICKET put there by the decryption.  If the ticket *)
(* does not decrypt, the resulting bitset has WITH_SESSION_TICKET exactly  *)
(* if an encrypt-decrypt key is available (the ticket status then becomes  *)
(* S2N_NEW_TICKET), and the handshake is a full one.                       *)
(***************************************************************************)
C16_TicketFlagOnFailedDecrypt ==
    (TypeSet /\ TicketPresented) =>
       /\ NoLookup
       /\ IF Before.cfg.decrypt_ok
          THEN ButTicket(After.handshake_type) = NEGOTIATED
          ELSE /\ HasFlag(After.handshake_type, WITH_SESSION_TICKET) <=> Before.cfg.key_available
               /\ (After.ticket_status = "S2N_NEW_TICKET") <=> Before.cfg.key_available
               /\ HasFlag(After.handshake_type, FULL_HANDSHAKE)

\* the ticket did not decrypt, a key is available, and the session cache, which
\* has the session, was not asked
C16_Witness ==
    /\ TypeSet
    /\ TicketPresented
    /\ ~Before.cfg.decrypt_ok
    /\ Before.cfg.key_available
    /\ Before.cfg.allowed_to_cache
    /\ Before.cfg.cache_hit
    /\ HasFlag(After.handshake_type, WITH_SESSION_TICKET)
    /\ HasFlag(After.handshake_type, FULL_HANDSHAKE)
    /\ After.cache_lookups = 0

\* what the statement of C17 is made of
Resumption ==
    \/ TicketPresented /\ Before.cfg.decrypt_ok
    \/ ~TicketPresented /\ Before.cfg.allowed_to_cache /\ Before.cfg.cache_hit
    \/ Before.mode = "C" /\ Before.cfg.client_session_resumed

Flag(present, f) == IF present THEN f ELSE 0

FullType ==
    NEGOTIATED + FULL_HANDSHAKE
    + Flag(\/ Before.mode = "C" /\ Before.cfg.auth = "REQUIRED"
           \/ Before.mode = "S" /\ Before.cfg.auth # "NONE", CLIENT_AUTH)
    + Flag(Before.cfg.kex_ephemeral, PERFECT_FORWARD_SECRECY)
    + Flag(Before.cfg.can_send_ocsp \/ Before.cfg.sent_ocsp, OCSP_STATUS)

(***************************************************************************)
(* C17: whatever bitset was there before, s2n_conn_set_handshake_type      *)
(* yields, when nothing is resumed, NEGOTIATED | FULL_HANDSHAKE with       *)
(* CLIENT_AUTH exactly for a client whose auth-mode is required and a      *)
(* server whose auth-mode is not none, PERFECT_FORWARD_SECRECY exactly for *)
(* an ephemeral key exchange, OCSP_STATUS exactly if the server can send   *)
(* or has sent a stapled response, and never NO_CLIENT_CERT; on a          *)
(* resumption it yields NEGOTIATED; either with or without                 *)
(* WITH_SESSION_TICKET.  The table has a sequence for the result.          *)
(***************************************************************************)
C17_TypeFromParameters ==
    TypeSet =>
       /\ ButTicket(After.handshake_type) = IF Resumption THEN NEGOTIATED ELSE FullType
       /\ Terminated(handshakes(After.handshake_type))

\* a server that had every flag set starts a full handshake with client
\* authentication, an ephemeral key exchange and a stapled response
C17_Witness ==
    /\ TypeSet
    /\ Before.handshake_type # INITIAL
    /\ Before.mode = "S"
    /\ After.handshake_type
          = NEGOTIATED + FULL_HANDSHAKE + PERFECT_FORWARD_SECRECY + OCSP_STATUS + CLIENT_AUTH

(***************************************************************************)
(* Claims about failing handlers.                                          *)
(***************************************************************************)
\* the last handler the driver invoked on c is one that fails
LastCall(c) == c.calls[Len(c.calls)]
HandlerFailed(c) == c.calls # << >> /\ LastCall(c).kind \in c.cfg.fail

\* where the driver invoked it
InWritePath(c) == LastCall(c).dir = "send"
ForSslv2(c) == LastCall(c).kind = "SSLV2_CLIENT_HELLO"
ForChangeCipherSpec(c) == LastCall(c).dir = "recv" /\ ~ForSslv2(c) /\ IsCCS(LastCall(c).kind)
ForHandshakeMessage(c) == LastCall(c).dir = "recv" /\ ~ForSslv2(c) /\ ~IsCCS(LastCall(c).kind)

ReturnsHandlerError(c) ==
    /\ c.ret < 0
    /\ c.err = "S2N_ERR_HANDLER"
    /\ c.debug_str = LastCall(c).kind

(***************************************************************************)
(* C18 as stated: whenever a handler invoked by the driver fails, the      *)
(* connection is marked killed and s2n_negotiate returns the handler's     *)
(* error.                                                                  *)
(***************************************************************************)
C18_EveryFailingHandlerKills ==
    \A k \in DOMAIN conn :
       HandlerFailed(conn[k]) => conn[k].killed /\ ReturnsHandlerError(conn[k])

(***************************************************************************)
(* C18: whenever a handler invoked by the driver fails, s2n_negotiate      *)
(* fails: with the handler's error, or, for a write handler, with the      *)
(* alert that the one read after the failed write has found.  The          *)
(* connection is marked killed exactly if the handler was the one for a    *)
(* message of a handshake record; after a failing write handler, handler   *)
(* for a CHANGE_CIPHER_SPEC record or SSLv2 ClientHello handler it is not. *)
(***************************************************************************)
C18_MessageHandlerFailureKills ==
    \A k \in DOMAIN conn :
       HandlerFailed(conn[k]) =>
          /\ conn[k].ret < 0
          /\ \/ ReturnsHandlerError(conn[k])
             \/ InWritePath(conn[k]) /\ conn[k].err = "S2N_ERR_ALERT"
          /\ conn[k].killed <=> ForHandshakeMessage(conn[k])

\* a server whose handler for the ClientKeyExchange failed
C18_Witness ==
    \E k \in DOMAIN conn :
       /\ HandlerFailed(conn[k])
       /\ ForHandshakeMessage(conn[k])
       /\ LastCall(conn[k]).kind = "CLIENT_KEY"
       /\ conn[k].killed
       /\ ReturnsHandlerError(conn[k])

\* the other three: none of them has killed the connection
C18_WitnessWrite == \E k \in DOMAIN conn : HandlerFailed(conn[k]) /\ InWritePath(conn[k]) /\ ~conn[k].killed
C18_WitnessCCS ==
    \E k \in DOMAIN conn : HandlerFailed(conn[k]) /\ ForChangeCipherSpec(conn[k]) /\ ~conn[k].killed
C18_WitnessSslv2 == \E k \in DOMAIN conn : HandlerFailed(conn[k]) /\ ForSslv2(conn[k]) /\ ~conn[k].killed

(***************************************************************************)
(* Claims about s2n_connection_get_handshake_type_name (SpecNames).        *)
(***************************************************************************)
\* a row read as a C string: what is before the first terminator
RECURSIVE CString(_)
CString(row) ==
    IF row = << >> \/ Head(row) = "NUL" THEN << >> ELSE << Head(row) >> \o CString(Tail(row))

\* the string thread k, which has returned from the function, has in hand
Held(k) ==
    IF thread[k].ret = "INITIAL" THEN << "INITIAL" >>
    ELSE CString(handshake_type_str[conn[k].handshake_type])

\* the names of the flags of t, in the order of the statement, joined by "|"
FlagNames ==
    << << NEGOTIATED, "NEGOTIATED" >>, << FULL_HANDSHAKE, "FULL_HANDSHAKE" >>,
       << PERFECT_FORWARD_SECRECY, "PERFECT_FORWARD_SECRECY" >>, << OCSP_STATUS, "OCSP_STATUS" >>,
       << CLIENT_AUTH, "CLIENT_AUTH" >>, << WITH_SESSION_TICKET, "WITH_SESSION_TICKET" >>,
       << NO_CLIENT_CERT, "NO_CLIENT_CERT" >> >>

RECURSIVE Joined(_, _)
Joined(t, n) ==
    IF n > Len(FlagNames) THEN << >>
    ELSE IF ~HasFlag(t, FlagNames[n][1]) THEN Joined(t, n + 1)
    ELSE IF Joined(t, n + 1) = << >> THEN << FlagNames[n][2] >>
    ELSE << FlagNames[n][2], "|" >> \o Joined(t, n + 1)

TypeName(t) == IF t = INITIAL THEN << "INITIAL" >> ELSE Joined(t, 1)

Returned(k) == thread[k].pc = "returned"

(***************************************************************************)
(* C19: a call of s2n_connection_get_handshake_type_name (one that is not  *)
(* under way at the same time as another call for the same bitset) returns *)
(* "INITIAL" for the zero bitset and otherwise the names of the set flags  *)
(* joined by '|' with no trailing separator, in the order NEGOTIATED,      *)
(* FULL_HANDSHAKE, PERFECT_FORWARD_SECRECY, OCSP_STATUS, CLIENT_AUTH,      *)
(* WITH_SESSION_TICKET, NO_CLIENT_CERT: the first call and every later     *)
(* one, whatever calls for other bitsets are made in between or meanwhile. *)
(* A row that holds the name of its bitset is not written again by such a  *)
(* call.                                                                   *)
(***************************************************************************)
C19_NameOfBitset ==
    /\ [](\A k \in DOMAIN thread :
            (Returned(k) /\ thread[k].alone) => Held(k) = TypeName(conn[k].handshake_type))
    /\ [][\A k \in DOMAIN thread :
            (thread[k].pc = "idle" /\ thread'[k].pc # "idle" /\ thread'[k].alone
               /\ conn[k].handshake_type # INITIAL
               /\ CString(handshake_type_str[conn[k].handshake_type])
                     = TypeName(conn[k].handshake_type))
            => thread'[k].pc = "returned" /\ handshake_type_str' = handshake_type_str]_vars

\* the second of two calls for all seven flags, made after a call for another
\* bitset by the other thread
C19_Witness ==
    /\ DOMAIN thread = Threads
    /\ Returned("one")
    /\ thread["one"].alone
    /\ thread["one"].calls = 1
    /\ thread["two"].calls = 1
    /\ conn["one"].handshake_type
          = NEGOTIATED + FULL_HANDSHAKE + PERFECT_FORWARD_SECRECY + OCSP_STATUS + CLIENT_AUTH
            + WITH_SESSION_TICKET + NO_CLIENT_CERT
    /\ conn["two"].handshake_type = OtherType
    /\ Held("one") = << "NEGOTIATED", "|", "FULL_HANDSHAKE", "|", "PERFECT_FORWARD_SECRECY", "|",
                        "OCSP_STATUS", "|", "CLIENT_AUTH", "|", "WITH_SESSION_TICKET", "|",
                        "NO_CLIENT_CERT" >>

(***************************************************************************)
(* C20: when two threads call s2n_connection_get_handshake_type_name at    *)
(* the same time for connections with the same bitset, every call returns  *)
(* the complete name: the string a caller has in hand is never a row that  *)
(* is partly built or still has the trailing '|'.                          *)
(***************************************************************************)
C20_ConcurrentCallsComplete ==
    \A k \in DOMAIN thread : Returned(k) => Held(k) = TypeName(conn[k].handshake_type)

(***************************************************************************)
(* Claims about progress (SpecLive).                                       *)
(***************************************************************************)
AtApplicationData(e) == Succeeded(conn[e]) /\ ACTIVE_MESSAGE(conn[e]) = "APPLICATION_DATA"

\* endpoint e has something to do: a message to write, a record to flush or a
\* record to read
CanMove(e) ==
    \/ ACTIVE_STATE(conn[e]).writer = conn[e].mode
    \/ conn[e].out # << >>
    \/ conn[e].rx # << >>

(***************************************************************************)
(* C21: for a client and a server with compatible configurations, handlers *)
(* that succeed and a transport that takes every record in the end and     *)
(* delivers it in order, repeated calls of s2n_negotiate on both endpoints *)
(* eventually return success with both at APPLICATION_DATA; until then one *)
(* of the two always has a message to write, a record to flush or a record *)
(* to read, and no call fails for good.                                    *)
(***************************************************************************)
C21_HandshakeCompletes ==
    /\ <>(\A e \in DOMAIN conn : AtApplicationData(e))
    /\ [](/\ \A e \in DOMAIN conn : ~Failed(conn[e])
          /\ (\E e \in DOMAIN conn : ACTIVE_MESSAGE(conn[e]) # "APPLICATION_DATA")
                => \E e \in DOMAIN conn : CanMove(e))

\* a full handshake with client authentication is over on both sides, after
\* flushes of both have blocked
C21_Witness ==
    /\ \A e \in DOMAIN conn :
          /\ AtApplicationData(e)
          /\ conn[e].write_blocked
          /\ HasFlag(conn[e].handshake_type, CLIENT_AUTH)

(***************************************************************************)
(* Claims about the order of the steps of the read path.                   *)
(***************************************************************************)
\* the i-th handler call of c is for a message of a handshake record: the
\* handler found the read cursor of handshake.io behind the parsed header
ReceivedMessage(c, i) ==
    /\ c.calls[i].dir = "recv"
    /\ c.calls[i].kind # "SSLV2_CLIENT_HELLO"
    /\ c.cursor[i] = TLS_HANDSHAKE_HEADER_LENGTH

\* header and body of the message the call was made for
MessageBytes(call) ==
    << state_machine(call.kind).message_type >> \o EncodeLength(Len(call.payload)) \o call.payload

\* what the transcript took in after the i-th call began with the bytes of its
\* message, and the next handler ran after that
HashedAfterHandler(c, i) ==
    /\ Len(c.transcript) >= c.hashed[i] + Len(MessageBytes(c.calls[i]))
    /\ SubSeq(c.transcript, c.hashed[i] + 1, c.hashed[i] + Len(MessageBytes(c.calls[i])))
         = MessageBytes(c.calls[i])
    /\ i < Len(c.calls) => c.hashed[i + 1] >= c.hashed[i] + Len(MessageBytes(c.calls[i]))

\* the position is the one after the message of the last handler call
PositionAfterLastCall(c) ==
    /\ c.message_number >= 1
    /\ handshakes(c.handshake_type)[c.message_number] = LastCall(c).kind

(***************************************************************************)
(* C22: for each message of an inbound handshake record the handler runs   *)
(* on the complete message before the message is fed to the transcript,    *)
(* and the header and body of the message are fed to it before the next    *)
(* handler runs.  When the handler failed the message is in the transcript *)
(* all the same, handshake.io is wiped and the position is the one of the  *)
(* message; when it succeeded and no other handler has run since, the      *)
(* position is the one after it.                                           *)
(***************************************************************************)
C22_HandlerBeforeTranscript ==
    \A k \in DOMAIN conn :
       /\ \A i \in 1..Len(conn[k].calls) :
             ReceivedMessage(conn[k], i) => HashedAfterHandler(conn[k], i)
       /\ (conn[k].calls # << >> /\ ReceivedMessage(conn[k], Len(conn[k].calls))) =>
             \/ /\ ~HandlerFailed(conn[k])
                /\ PositionAfterLastCall(conn[k])
             \/ /\ conn[k].ret < 0
                /\ conn[k].err # "S2N_ERR_BLOCKED"
                /\ ACTIVE_MESSAGE(conn[k]) = LastCall(conn[k]).kind
                /\ conn[k].io = s2n_stuffer_wipe
                /\ Len(conn[k].transcript)
                     = conn[k].hashed[Len(conn[k].calls)] + Len(MessageBytes(LastCall(conn[k])))

\* the ClientKeyExchange whose handler failed is the last thing in the transcript
C22_Witness ==
    \E k \in DOMAIN conn :
       /\ conn[k].calls # << >>
       /\ LastCall(conn[k]).kind = "CLIENT_KEY"
       /\ LastCall(conn[k]).kind \in conn[k].cfg.fail
       /\ conn[k].hashed[Len(conn[k].calls)] > 0
       /\ SubSeq(conn[k].transcript, conn[k].hashed[Len(conn[k].calls)] + 1, Len(conn[k].transcript))
            = ClientKeyMsg

(***************************************************************************)
(* Claims about the transport hints of s2n_advance_message.                *)
(***************************************************************************)
\* the library manages corking, and the application left the transport uncorked
CorkingManaged(c) == c.cfg.corked_io /\ c.cfg.managed_corked /\ ~c.cfg.was_corked

\* the writers of slots n - 1 and n of the row differ
WriterChangesAt(c, n) ==
    state_machine(Slot(c.handshake_type, n)).writer
       # state_machine(Slot(c.handshake_type, n - 1)).writer

\* what the advances to slots 1..n of the row have to issue
RECURSIVE CorkOpsUpTo(_, _)
CorkOpsUpTo(c, n) ==
    IF n = 0 THEN << >>
    ELSE CorkOpsUpTo(c, n - 1)
         \o (IF ~WriterChangesAt(c, n) THEN << >>
             ELSE IF state_machine(Slot(c.handshake_type, n)).writer = c.mode THEN << "cork" >>
             ELSE << "uncork" >>)

(***************************************************************************)
(* C23: every advance issues one quick-ack hint.  With corking managed and *)
(* the transport not corked by the application, the advances made so far   *)
(* issued a cork at every slot where the writer became this endpoint, an   *)
(* uncork at every slot where it became the peer or BOTH, and nothing at a *)
(* slot that kept the writer; once the writer has changed the transport is *)
(* corked iff this endpoint is the current writer, and it is uncorked at   *)
(* APPLICATION_DATA.  Otherwise the driver never corks or uncorks and the  *)
(* transport stays as the application left it.                             *)
(***************************************************************************)
C23_CorkFollowsWriter ==
    \A e \in DOMAIN conn :
       /\ conn[e].quickacks = conn[e].message_number
       /\ IF CorkingManaged(conn[e])
          THEN /\ conn[e].cork_ops = CorkOpsUpTo(conn[e], conn[e].message_number)
               /\ conn[e].cork_ops # << >> =>
                     (conn[e].corked <=> ACTIVE_STATE(conn[e]).writer = conn[e].mode)
               /\ ACTIVE_MESSAGE(conn[e]) = "APPLICATION_DATA" => ~conn[e].corked
          ELSE /\ conn[e].cork_ops = << >>
               /\ conn[e].corked = conn[e].cfg.was_corked

\* a server with managed corking at APPLICATION_DATA of a full handshake
C23_Witness ==
    /\ DOMAIN conn = {"client", "server"}
    /\ ACTIVE_MESSAGE(conn["server"]) = "APPLICATION_DATA"
    /\ CorkingManaged(conn["server"])
    /\ HasFlag(conn["server"].handshake_type, FULL_HANDSHAKE)
    /\ conn["server"].cork_ops = << "cork", "uncork", "cork", "uncork" >>
    /\ conn["server"].quickacks = conn["server"].message_number
    /\ ~conn["server"].corked

(***************************************************************************)
(* Claims about SSLv2 records.                                             *)
(***************************************************************************)
\* the number of the script's records that connection k has been given in full
GivenInFull(k) ==
    IF k = "whole" THEN fed.whole_pos
    ELSE IF k = "frag" /\ fed.frag_off = 0 THEN fed.frag_pos
    ELSE 0

\* the calls of the SSLv2 ClientHello handler
Sslv2Calls(c) == {i \in 1..Len(c.calls) : c.calls[i].kind = "SSLV2_CLIENT_HELLO"}

(***************************************************************************)
(* C24: an SSLv2 record given to an endpoint that is not at CLIENT_HELLO   *)
(* (a server that has taken a ClientHello, or a client) fails with         *)
(* BAD_MESSAGE and no SSLv2 handler runs.  An SSLv2 record given to a      *)
(* server at CLIENT_HELLO, whatever record type comes with it, has the     *)
(* SSLv2 ClientHello handler run once and message_number advance by one    *)
(* (the next handler is that of slot 1), and the read succeeds: with no    *)
(* failing handler the call does not fail.                                 *)
(***************************************************************************)
C24_Sslv2HelloTerminal ==
    \A k \in DOMAIN conn :
       (/\ GivenInFull(k) >= 1
        /\ fed.script[GivenInFull(k)].sslv2
        /\ conn[k].cfg.fail = {}) =>
          IF GivenInFull(k) = 1 /\ conn[k].mode = "S"
          THEN /\ Sslv2Calls(conn[k]) = {1}
               /\ conn[k].message_number >= 1
               /\ Len(conn[k].calls) >= 2 => conn[k].calls[2].kind = Slot(conn[k].handshake_type, 1)
               /\ ~Failed(conn[k])
          ELSE /\ conn[k].ret < 0
               /\ conn[k].err = "S2N_ERR_BAD_MESSAGE"
               /\ conn[k].debug_str = "s2n_handshake_handle_sslv2"
               /\ Sslv2Calls(conn[k]) = {}

(***************************************************************************)
(* Claims about the records of the write path.                             *)
(***************************************************************************)
\* what the write handlers of an endpoint produced, message by message: the
\* record type, and the bytes left in handshake.io when the handler is done
ProducedBy(c) ==
    LET sent == SelectSeq(c.calls, LAMBDA call : call.dir = "send")
    IN [i \in 1..Len(sent) |->
          [type |-> state_machine(sent[i].kind).record_type,
           bytes |-> IF IsCCS(sent[i].kind) THEN sent[i].payload ELSE MessageBytes(sent[i])]]

\* the records are fragments of the messages, in order: each record has the
\* record type of its message and from 1 to max of its bytes, the next that are
\* due; only the last message may be without some or all of its records
RECURSIVE Framed(_, _, _)
Framed(recs, msgs, max) ==
    IF recs = << >> THEN Len(msgs) <= 1
    ELSE IF msgs = << >> THEN FALSE
    ELSE LET r == Head(recs)
             m == Head(msgs)
         IN /\ r.type = m.type
            /\ Len(r.data) \in 1..max
            /\ Len(r.data) <= Len(m.bytes)
            /\ r.data = SubSeq(m.bytes, 1, Len(r.data))
            /\ IF Len(r.data) = Len(m.bytes) THEN Framed(Tail(recs), Tail(msgs), max)
               ELSE Framed(Tail(recs),
                           << [m EXCEPT !.bytes = SubSeq(m.bytes, Len(r.data) + 1, Len(m.bytes))] >>
                              \o Tail(msgs),
                           max)

(***************************************************************************)
(* C25: every record an endpoint has emitted carries bytes of exactly one  *)
(* message, at least one and at most max_record_payload of them; the       *)
(* records of a message carry its bytes in order and together make up the  *)
(* message the handler produced; and the records of a message come before  *)
(* all records of the messages written after it.                           *)
(***************************************************************************)
C25_OneMessagePerRecord ==
    \A e \in DOMAIN conn :
       Framed(wire[e] \o conn[e].out, ProducedBy(conn[e]), conn[e].cfg.max_payload)

\* a client that wrote ClientKeyExchange, ChangeCipherSpec and Finished with a
\* maximum payload of 2: three records, one record, three records
C25_Witness ==
    /\ DOMAIN conn = {"client", "server"}
    /\ conn["client"].cfg.max_payload = 2
    /\ ACTIVE_MESSAGE(conn["client"]) = "APPLICATION_DATA"
    /\ Len(wire["client"]) = 10
    /\ [i \in 1..10 |-> Len(wire["client"][i].data)] = << 2, 2, 1, 2, 2, 1, 1, 2, 2, 1 >>

(***************************************************************************)
(* Claims about the records the read path ignores.                         *)
(***************************************************************************)
\* a record that is neither CHANGE_CIPHER_SPEC, HANDSHAKE nor APPLICATION_DATA
IgnoredType(rec) ==
    /\ ~rec.sslv2
    /\ rec.type \notin {TLS_CHANGE_CIPHER_SPEC, TLS_HANDSHAKE, TLS_APPLICATION_DATA}

\* this step gives connection k a record of such a type
GivenIgnored(k) == Delivered(k) # << >> /\ IgnoredType(Delivered(k)[1])

\* the script has records of such types between the fragments of its first message
FragmentsApart ==
    /\ Len(fed.script) >= 3
    /\ fed.script[1].type = TLS_HANDSHAKE
    /\ Len(fed.script[1].data) < TLS_HANDSHAKE_HEADER_LENGTH
    /\ IgnoredType(fed.script[2])

(***************************************************************************)
(* C26: a record of an unknown type is dropped: the read succeeds, and     *)
(* handshake_type, message_number, the transcript, what handshake.io holds *)
(* of a message and the handlers called are as before.  The same holds for *)
(* an ALERT record whose processing reports no error.  A message whose     *)
(* fragments are separated by such records is handled once, with its       *)
(* complete body.                                                          *)
(***************************************************************************)
C26_IgnoredRecordsDropped ==
    /\ [][\A k \in DOMAIN conn :
            GivenIgnored(k) =>
               /\ Delivered(k)[1].type # TLS_ALERT => ~Failed(conn'[k])
               /\ ~Failed(conn'[k]) =>
                     /\ conn'[k].handshake_type = conn[k].handshake_type
                     /\ conn'[k].message_number = conn[k].message_number
                     /\ conn'[k].transcript = conn[k].transcript
                     /\ conn'[k].io = conn[k].io
                     /\ conn'[k].calls = conn[k].calls
                     /\ conn'[k].inb = << >>]_vars
    /\ [](\A k \in DOMAIN conn :
            (FragmentsApart /\ GivenInFull(k) = Len(fed.script)) =>
               /\ conn[k].calls # << >>
               /\ conn[k].calls[1] = [kind |-> "CLIENT_HELLO", dir |-> "recv", payload |-> Bytes(1)]
               /\ \A i \in 2..Len(conn[k].calls) : conn[k].calls[i].kind # "CLIENT_HELLO"
               /\ SubSeq(conn[k].transcript, 1, Len(ClientHelloMsg)) = ClientHelloMsg)

\* the ClientHello that came in two records with an unknown record and an alert
\* fragment between them has been handled
C26_Witness ==
    \E k \in DOMAIN conn :
       /\ FragmentsApart
       /\ GivenInFull(k) = Len(fed.script)
       /\ conn[k].alert_in = << 1 >>
       /\ conn[k].calls[1].payload = Bytes(1)
       /\ conn[k].message_number > 0

(***************************************************************************)
(* Claims about the record type a handler is invoked for.                  *)
(***************************************************************************)
\* this step gives connection k, which waits for a message of one record type,
\* a ChangeCipherSpec or handshake record of the other
GivenOtherRecordType(k) ==
    /\ Delivered(k) # << >>
    /\ ~Delivered(k)[1].sslv2
    /\ Delivered(k)[1].type \in {TLS_CHANGE_CIPHER_SPEC, TLS_HANDSHAKE}
    /\ ACTIVE_STATE(conn[k]).record_type \in {TLS_CHANGE_CIPHER_SPEC, TLS_HANDSHAKE}
    /\ ACTIVE_STATE(conn[k]).record_type # Delivered(k)[1].type

(***************************************************************************)
(* C27: the read path invokes the handler of the current message only for  *)
(* a record of the record type of that message: no handler is invoked for  *)
(* a CHANGE_CIPHER_SPEC record given to an endpoint whose current message  *)
(* is a HANDSHAKE kind, nor for a handshake record given to an endpoint     *)
(* whose current message is a CHANGE_CIPHER_SPEC kind.                     *)
(***************************************************************************)
C27_HandlerForOwnRecordType ==
    [][\A k \in DOMAIN conn :
         GivenOtherRecordType(k) => conn'[k].calls = conn[k].calls]_vars

(***************************************************************************)
(* Claims about the two repairs of the client together.                    *)
(***************************************************************************)
\* an optional-auth client that expects the CertificateStatus, in a handshake
\* without CLIENT_AUTH and PERFECT_FORWARD_SECRECY, is given a CertificateRequest
CertReqForCertStatus(k) ==
    /\ OcspLeftOut(k)
    /\ conn[k].cfg.auth = "OPTIONAL"
    /\ ~HasFlag(conn[k].handshake_type, CLIENT_AUTH)
    /\ ~HasFlag(conn[k].handshake_type, PERFECT_FORWARD_SECRECY)
    /\ HeadType(Completed(k)) = TLS_CLIENT_CERT_REQ

(***************************************************************************)
(* C28: an optional-auth client whose handshake_type has OCSP_STATUS but   *)
(* neither CLIENT_AUTH nor PERFECT_FORWARD_SECRECY and whose current       *)
(* message is SERVER_CERT_STATUS refuses a CertificateRequest with         *)
(* BAD_MESSAGE: no handler is invoked and the position stays, OCSP_STATUS  *)
(* is cleared, CLIENT_AUTH is not set, and handshake_type is left          *)
(* different from what it was before the failed read.                      *)
(***************************************************************************)
C28_RepairsDoNotCompose ==
    [][\A k \in DOMAIN conn :
         CertReqForCertStatus(k) =>
            /\ RefusedAt(k, ClearFlag(conn[k].handshake_type, OCSP_STATUS))
            /\ ~HasFlag(conn'[k].handshake_type, CLIENT_AUTH)
            /\ conn'[k].handshake_type # conn[k].handshake_type
            /\ ACTIVE_MESSAGE(conn'[k]) = "SERVER_HELLO_DONE"]_vars

\* the client has refused the CertificateRequest that came after the Certificate
C28_Witness ==
    \E k \in DOMAIN conn :
       /\ conn[k].mode = "C"
       /\ conn[k].cfg.auth = "OPTIONAL"
       /\ conn[k].cfg.sent_ocsp
       /\ conn[k].handshake_type = NEGOTIATED + FULL_HANDSHAKE
       /\ BadMessage(conn[k])
       /\ conn[k].calls # << >>
       /\ LastCall(conn[k]).kind = "SERVER_CERT"
       /\ s2n_stuffer_peek(conn[k].io, 1) = << TLS_CLIENT_CERT_REQ >>

(***************************************************************************)
(* Claims about the changes of handshake_type during a handshake.          *)
(***************************************************************************)
\* the sequences of t and u have the same kinds in the slots below n
SamePath(t, u, n) == \A i \in 0..(n - 1) : Slot(t, i) = Slot(u, i)

\* the i-th value of handshake_type and the one assigned after it
TypeBefore(c, i) == c.type_history[i].type
TypeAfter(c, i) == c.type_history[i + 1].type
ChangedAt(c, i) == c.type_history[i + 1].at

\* the change is one of the four the driver makes, made where it makes it
KnownChange(t, u, n) ==
    \/ /\ t = INITIAL
       /\ n \in {0, 1}
       /\ Slot(u, n) = Slot(t, n)
    \/ /\ u = SetFlag(t, CLIENT_AUTH)
       /\ Slot(t, n) = "SERVER_HELLO_DONE"
    \/ /\ u = ClearFlag(t, OCSP_STATUS)
       /\ Slot(t, n) = "SERVER_CERT_STATUS"
    \/ /\ u = SetFlag(t, NO_CLIENT_CERT)
       /\ Slot(t, n) = "CLIENT_CERT"
       /\ Slot(u, n) = "CLIENT_CERT"

\* the message the last handler call was for
LastHandled(c) ==
    IF LastCall(c).kind = "SSLV2_CLIENT_HELLO" THEN "CLIENT_HELLO" ELSE LastCall(c).kind

(***************************************************************************)
(* C29: every change of handshake_type made during a handshake is the      *)
(* switch from INITIAL at message_number 0 or 1, the addition of           *)
(* CLIENT_AUTH while SERVER_HELLO_DONE is expected, the removal of         *)
(* OCSP_STATUS while SERVER_CERT_STATUS is expected, or the addition of    *)
(* NO_CLIENT_CERT while CLIENT_CERT is current, and leaves the kinds at    *)
(* all positions below message_number what they were (the first and the    *)
(* last leave the current kind too); the message before the current one in *)
(* the sequence is therefore the one whose handler ran last.               *)
(***************************************************************************)
C29_ChangesKeepPath ==
    \A e \in DOMAIN conn :
       /\ \A i \in 1..(Len(conn[e].type_history) - 1) :
             /\ SamePath(TypeBefore(conn[e], i), TypeAfter(conn[e], i), ChangedAt(conn[e], i))
             /\ KnownChange(TypeBefore(conn[e], i), TypeAfter(conn[e], i), ChangedAt(conn[e], i))
       /\ conn[e].type_history[Len(conn[e].type_history)].type = conn[e].handshake_type
       /\ (conn[e].message_number >= 1 /\ ~Writing(conn[e]) /\ conn[e].calls # << >>) =>
             PREVIOUS_MESSAGE(conn[e]) = LastHandled(conn[e])
                \/ ACTIVE_MESSAGE(conn[e]) = LastHandled(conn[e])

\* a client that has made all four changes in one handshake
C29_Witness ==
    /\ DOMAIN conn = {"client", "server"}
    /\ [i \in 1..Len(conn["client"].type_history) |-> conn["client"].type_history[i].type]
         = << INITIAL,
              NEGOTIATED + FULL_HANDSHAKE + PERFECT_FORWARD_SECRECY + OCSP_STATUS,
              NEGOTIATED + FULL_HANDSHAKE + PERFECT_FORWARD_SECRECY,
              NEGOTIATED + FULL_HANDSHAKE + PERFECT_FORWARD_SECRECY + CLIENT_AUTH,
              NEGOTIATED + FULL_HANDSHAKE + PERFECT_FORWARD_SECRECY + CLIENT_AUTH + NO_CLIENT_CERT >>
    /\ ACTIVE_MESSAGE(conn["client"]) = "APPLICATION_DATA"
====
